---- MODULE Spec2Model ----
(***************************************************************************)
(* cloud-map-py: topology organizer (organizer.py) and renderers           *)
(* (diagram.py, presentation/plantuml_generator.py).                       *)
(*                                                                         *)
(* A run is: the already discovered flat resource lists (the inputs of     *)
(* organize_network_topology), the organizer call, create_account_topology *)
(* and then one call of a renderer method on a fresh output sink.          *)
(*                                                                         *)
(* Text written to the sink is a sequence of lines; a line is a record     *)
(* [indent, text] where indent is the number of leading spaces and text    *)
(* the sequence of string fragments the f-string concatenates.  Every      *)
(* write of the text renderer ends with a newline, so the sink always      *)
(* holds whole lines; a blank line has no fragments.                       *)
(***************************************************************************)
EXTENDS Integers, Sequences, FiniteSets, TLC

VARIABLES
    vpcs,               \* input: List[VPC]
    subnets,            \* input: List[Subnet]
    route_tables,       \* input: List[RouteTable]
    internet_gateways,  \* input: List[InternetGateway]
    ec2_instances,      \* input: List[EC2Instance]
    lambda_functions,   \* input: List[LambdaFunction]
    nat_gateways,       \* input: List[NatGateway]
    route53_zones,      \* input: List[Route53HostedZone]
    api_gateways,       \* input: List[APIGateway]
    organizer,          \* which organizer built topologies
    topologies,         \* result of the organizer: List[NetworkTopology]
    account,            \* <<>> or <<AccountTopology>>
    output,             \* the sink: lines written so far
    generator,          \* PlantUMLDiagramGenerator: which constructor arguments are set
    saved,              \* calls of output_manager.save_plantuml_output
    call,               \* the renderer method that wrote to the sink, and its argument
    again,              \* the sink of a repeated call of the same renderer
    resource,           \* a resource record under construction (models.py)
    pc

vars == <<vpcs, subnets, route_tables, internet_gateways, ec2_instances,
          lambda_functions, nat_gateways, route53_zones, api_gateways, organizer,
          topologies, account, output, generator, saved, call, again, resource, pc>>

\* state outside the first run of organizer and renderer
aside == <<again, resource>>

inputs == <<vpcs, subnets, route_tables, internet_gateways, ec2_instances,
            lambda_functions, nat_gateways, route53_zones, api_gateways>>

-----------------------------------------------------------------------------
(* Bounds of the explored inputs. *)

MaxVpcs == 2
MaxSubnets == 2
MaxInstances == 2
MaxRouteTables == 2
MaxGateways == 2
MaxFunctions == 2
MaxZones == 2
MaxNatGateways == 2
MaxApis == 1
MaxZoneSubnets == 4
MaxNoteTables == 7
MaxRowInstances == 7

-----------------------------------------------------------------------------
(* Python values. *)

\* Python's None for an Optional[str] field.
None == "<None>"

\* Truth value of an Optional[str]: None and the empty string are falsy.
Truthy(s) == s # None /\ s # ""

\* `a or b` on Optional[str] operands.
Or(a, b) == IF Truthy(a) THEN a ELSE b

\* Optional[Dict[str, str]]: is_none marks None, keys the dict's key set.
NoneDict == [is_none |-> TRUE, keys |-> {}]
EmptyDict == [is_none |-> FALSE, keys |-> {}]
VpcConfigDict == [is_none |-> FALSE, keys |-> {"VpcId"}]

\* Truth value of an Optional[dict]: None and {} are falsy.
TruthyDict(d) == ~d.is_none /\ d.keys # {}

\* All sequences over S of length at most n.
SeqsUpTo(S, n) == UNION {[1..k -> S] : k \in 0..n}

Range(s) == {s[i] : i \in 1..Len(s)}

-----------------------------------------------------------------------------
(* Resource records (models.py), with the fields the organizer and the     *)
(* renderers read.                                                         *)

Region == "ap-northeast-2"

MkVpc(id, name, cidr, default) ==
    [resource_id |-> id, name |-> name, cidr_block |-> cidr,
     state |-> "available", is_default |-> default]

MkSubnet(id, name, vpc, cidr, az, public) ==
    [resource_id |-> id, name |-> name, vpc_id |-> vpc, cidr_block |-> cidr,
     availability_zone |-> az, map_public_ip_on_launch |-> public]

\* one entry of RouteTable.routes: a dict with the keys the discoverer sets
MkRoute(destination, gateway_id, state) ==
    [destination |-> destination, gateway_id |-> gateway_id, state |-> state]

MkRouteTable(id, name, vpc, routes) ==
    [resource_id |-> id, name |-> name, vpc_id |-> vpc, routes |-> routes]

MkGateway(id, vpc, state) ==
    [resource_id |-> id, vpc_id |-> vpc, state |-> state]

MkInstance(id, name, vpc, subnet, private_ip, public_ip) ==
    [resource_id |-> id, name |-> name, instance_type |-> "t3.micro",
     state |-> "running", vpc_id |-> vpc, subnet_id |-> subnet,
     private_ip |-> private_ip, public_ip |-> public_ip]

MkFunction(id, subnet_ids, vpc_config) ==
    [resource_id |-> id, subnet_ids |-> subnet_ids, vpc_config |-> vpc_config]

MkNatGateway(id, name, subnet) ==
    [resource_id |-> id, name |-> name, subnet_id |-> subnet]

MkApi(id, api_name, api_type, vpc_links) ==
    [resource_id |-> id, api_name |-> api_name, api_type |-> api_type,
     vpc_links |-> vpc_links]

MkZone(id, zone_name, private, assoc) ==
    [resource_id |-> id, zone_name |-> zone_name, private_zone |-> private,
     vpc_associations |-> assoc]

\* The records the inputs are drawn from.
VpcPool ==
    { MkVpc("vpc-1", "prod", "10.0.0.0/16", FALSE),
      MkVpc("vpc-2", None, "172.31.0.0/16", TRUE) }

SubnetPool ==
    { MkSubnet("subnet-1", "web", "vpc-1", "10.0.1.0/24", "us-east-1a", TRUE),
      MkSubnet("subnet-2", None, "vpc-1", "10.0.2.0/24", "us-east-1b", FALSE),
      MkSubnet("subnet-3", None, "vpc-2", "172.31.0.0/20", "us-east-1a", FALSE) }

\* subnets of vpc-1 in two availability zones, public and private in each
ZoneSubnetPool ==
    { MkSubnet("subnet-1", "web", "vpc-1", "10.0.1.0/24", "us-east-1a", TRUE),
      MkSubnet("subnet-2", None, "vpc-1", "10.0.2.0/24", "us-east-1b", FALSE),
      MkSubnet("subnet-4", None, "vpc-1", "10.0.4.0/24", "us-east-1a", FALSE),
      MkSubnet("subnet-5", "edge", "vpc-1", "10.0.5.0/24", "us-east-1b", TRUE) }

RouteTablePool ==
    { MkRouteTable("rtb-1", "main", "vpc-1",
                   << MkRoute("10.0.0.0/16", "local", "active"),
                      MkRoute("0.0.0.0/0", "igw-1", "active") >>),
      MkRouteTable("rtb-2", None, "vpc-1", <<>>),
      MkRouteTable("rtb-3", None, "vpc-2",
                   << MkRoute("172.31.0.0/16", "local", "active") >>) }

\* route tables with more routes than the routing note shows: the k-th has
\* its own id, a long Name tag when k is odd, and five routes as
\* discover_route_tables records them ('' for a missing key)
NoteTableIds ==
    <<"rtb-11", "rtb-12", "rtb-13", "rtb-14", "rtb-15", "rtb-16", "rtb-17", "rtb-18", "rtb-19">>

NoteTable(k, vpc) ==
    MkRouteTable(NoteTableIds[k],
                 IF k % 2 = 1 THEN "private-route-table-us-east-1a" ELSE None,
                 vpc,
                 << MkRoute("10.0.0.0/16", "local", "active"),
                    MkRoute("0.0.0.0/0", "igw-0123456789abcdef0", "active"),
                    MkRoute("192.168.100.128/25", "nat-0123456789abcdef0", "blackhole"),
                    MkRoute("100.64.0.0/10", "vgw-1", "active"),
                    MkRoute("", "", "active") >>)

GatewayPool ==
    { MkGateway("igw-1", "vpc-1", "available"),
      MkGateway("igw-2", "vpc-2", "available"),
      MkGateway("igw-3", None, "detached") }

InstancePool ==
    { MkInstance("i-1", None, "vpc-1", "subnet-1", "10.0.1.5", None),
      MkInstance("i-2", "bastion", "vpc-1", "subnet-1", "10.0.1.6", "54.1.2.3"),
      MkInstance("i-3", None, "vpc-1", "subnet-2", "10.0.2.7", None),
      MkInstance("i-4", "db", "vpc-2", "subnet-3", "172.31.0.8", "54.1.2.4") }

FunctionPool ==
    { MkFunction("fn-1", <<"subnet-1">>, VpcConfigDict),
      MkFunction("fn-2", <<"subnet-2", "subnet-3">>, VpcConfigDict),
      MkFunction("fn-3", <<"subnet-1">>, NoneDict),
      MkFunction("fn-4", <<>>, EmptyDict) }

ZonePool ==
    { MkZone("Z1A", "corp.internal.", TRUE, <<"vpc-1">>),
      MkZone("Z2B", "shared.internal.", TRUE, <<"vpc-1", "vpc-2">>),
      MkZone("Z3C", "example.com.", FALSE, <<>>) }

NatGatewayPool ==
    { MkNatGateway("nat-1", None, "subnet-1"),
      MkNatGateway("nat-2", "egress", "subnet-2"),
      MkNatGateway("nat-3", None, "subnet-1") }

ApiPool ==
    { MkApi("a1b2c3", "orders", "REST", <<>>),
      MkApi("d4e5f6", "events", "HTTP", <<"vpc-1">>) }

\* VPC lists: a VPC id is unique in its region, so a list holds a VPC once.
VpcLists ==
    {s \in SeqsUpTo(VpcPool, MaxVpcs) : \A i, j \in 1..Len(s) : i # j => s[i] # s[j]}

-----------------------------------------------------------------------------
(* organizer.py *)

\* NetworkTopology.get_instances_by_subnet
get_instances_by_subnet(topology, subnet_id) ==
    LET InSubnet(instance) == instance.subnet_id = subnet_id
    IN  SelectSeq(topology.ec2_instances, InSubnet)

\* NetworkTopology.get_public_subnets
get_public_subnets(topology) ==
    LET IsPublic(subnet) == subnet.map_public_ip_on_launch
    IN  SelectSeq(topology.subnets, IsPublic)

\* NetworkTopology.get_private_subnets
get_private_subnets(topology) ==
    LET IsPrivate(subnet) == ~subnet.map_public_ip_on_launch
    IN  SelectSeq(topology.subnets, IsPrivate)

\* sequence concatenation of the per-topology lists (list.extend in a loop)
RECURSIVE Flatten(_)
Flatten(lists) ==
    IF lists = <<>> THEN <<>>
    ELSE Head(lists) \o Flatten(Tail(lists))

\* AccountTopology.get_all_instances
get_all_instances(acct) ==
    Flatten([i \in 1..Len(acct.vpcs) |-> acct.vpcs[i].ec2_instances])

\* AccountTopology.get_all_subnets
get_all_subnets(acct) ==
    Flatten([i \in 1..Len(acct.vpcs) |-> acct.vpcs[i].subnets])

\* a join that keeps every child
JoinByVpcUnfiltered(children, vpc) == children

\* the equality join on vpc_id of one child list
JoinByVpc(children, vpc) ==
    LET InVpc(c) == c.vpc_id = vpc.resource_id
    IN  SelectSeq(children, InVpc)

\* a Lambda join that does not look at vpc_config
JoinFunctionsAnyConfig(functions, vpc, vpc_subnets) ==
    LET Placed(func) ==
            \E k \in 1..Len(vpc_subnets) :
                /\ vpc_subnets[k].resource_id \in Range(func.subnet_ids)
                /\ vpc_subnets[k].vpc_id = vpc.resource_id
    IN  SelectSeq(functions, Placed)

\* the Lambda join: vpc_config truthy and some subnet of the VPC is in subnet_ids
JoinFunctions(functions, vpc, vpc_subnets) ==
    LET Placed(func) ==
            /\ TruthyDict(func.vpc_config)
            /\ \E k \in 1..Len(vpc_subnets) :
                  /\ vpc_subnets[k].resource_id \in Range(func.subnet_ids)
                  /\ vpc_subnets[k].vpc_id = vpc.resource_id
    IN  SelectSeq(functions, Placed)

\* the body of the loop over vpcs: the NetworkTopology of one VPC
TopologyOf(vpc, subs, rts, igws, insts, funcs) ==
    LET vpc_subnets == JoinByVpc(subs, vpc)
    IN  [vpc |-> vpc,
         subnets |-> vpc_subnets,
         route_tables |-> JoinByVpc(rts, vpc),
         internet_gateways |-> JoinByVpc(igws, vpc),
         ec2_instances |-> JoinByVpc(insts, vpc),
         lambda_functions |-> JoinFunctions(funcs, vpc, vpc_subnets)]

\* an organizer that walks the vpcs list backwards
organize_network_topology_reversed(vs, subs, rts, igws, insts, funcs) ==
    [i \in 1..Len(vs) |-> TopologyOf(vs[Len(vs) + 1 - i], subs, rts, igws, insts, funcs)]

\* ResourceOrganizer.organize_network_topology
organize_network_topology(vs, subs, rts, igws, insts, funcs) ==
    [i \in 1..Len(vs) |-> TopologyOf(vs[i], subs, rts, igws, insts, funcs)]

\* ResourceOrganizer.create_account_topology
create_account_topology(region, network_topologies) ==
    [region |-> region, vpcs |-> network_topologies]

-----------------------------------------------------------------------------
(* diagram.py: TextDiagramGenerator *)

\* TextDiagramGenerator.__init__: indent_size
indent_size == 2

\* widths of the "=" and "-" rules of generate_full_diagram
BannerWidth == 60
RuleWidth == 30

\* TextDiagramGenerator._indent: the number of spaces of " " * (level * indent_size)
_indent(level) == level * indent_size

Line(ind, text) == [indent |-> ind, text |-> text]

\* output.write("\n") after a complete line: an empty line
Blank == Line(0, <<>>)

\* c * n
Repeat(c, n) == [i \in 1..n |-> c]

Digits == <<"0", "1", "2", "3", "4", "5", "6", "7", "8", "9">>

\* str(n) of a non-negative int inside an f-string: its decimal digits
RECURSIVE Decimal(_)
Decimal(n) ==
    IF n < 10 THEN <<Digits[n + 1]>>
    ELSE Decimal(n \div 10) \o <<Digits[(n % 10) + 1]>>

\* str(b) of a bool inside an f-string
PyBool(b) == IF b THEN "True" ELSE "False"

\* instance lines that print the public IP unconditionally
InstanceLinesPublicAlways(instance) ==
    << Line(_indent(3), <<Or(instance.name, instance.resource_id)>>),
       Line(_indent(4), <<"Type: ", instance.instance_type>>),
       Line(_indent(4), <<"State: ", instance.state>>),
       Line(_indent(4), <<"Private IP: ", instance.private_ip>>),
       Line(_indent(4), <<"Public IP: ", instance.public_ip>>) >>

\* the lines of one instance inside generate_subnet_diagram
\* instance lines headed by the name alone, without the fallback
InstanceLinesNameOnly(instance) ==
    << Line(_indent(3), <<instance.name>>),
       Line(_indent(4), <<"Type: ", instance.instance_type>>),
       Line(_indent(4), <<"State: ", instance.state>>),
       Line(_indent(4), <<"Private IP: ", instance.private_ip>>) >>
    \o (IF Truthy(instance.public_ip)
        THEN <<Line(_indent(4), <<"Public IP: ", instance.public_ip>>)>>
        ELSE <<>>)

InstanceLines(instance) ==
    << Line(_indent(3), <<Or(instance.name, instance.resource_id)>>),
       Line(_indent(4), <<"Type: ", instance.instance_type>>),
       Line(_indent(4), <<"State: ", instance.state>>),
       Line(_indent(4), <<"Private IP: ", instance.private_ip>>) >>
    \o (IF Truthy(instance.public_ip)
        THEN <<Line(_indent(4), <<"Public IP: ", instance.public_ip>>)>>
        ELSE <<>>)

\* the body of the loop over topology.subnets in generate_subnet_diagram
SubnetBlock(topology, subnet) ==
    LET subnet_type == IF subnet.map_public_ip_on_launch THEN "Public" ELSE "Private"
        instances == get_instances_by_subnet(topology, subnet.resource_id)
    IN  << Line(_indent(1), <<subnet_type, " Subnet: ",
                              Or(subnet.name, subnet.resource_id)>>),
           Line(_indent(2), <<"CIDR: ", subnet.cidr_block>>),
           Line(_indent(2), <<"AZ: ", subnet.availability_zone>>) >>
        \o (IF instances # <<>>
            THEN <<Line(_indent(2), <<"EC2 Instances:">>)>>
                 \o Flatten([k \in 1..Len(instances) |-> InstanceLines(instances[k])])
            ELSE <<>>)
        \o <<Blank>>

\* TextDiagramGenerator.generate_subnet_diagram: the lines it writes
generate_subnet_diagram(topology) ==
    << Line(0, <<"VPC: ", Or(topology.vpc.name, topology.vpc.resource_id),
                 " (", topology.vpc.cidr_block, ")">>) >>
    \o Flatten([k \in 1..Len(topology.subnets) |->
                    SubnetBlock(topology, topology.subnets[k])])

\* a VPC-level summary that prints the instance total unconditionally
generate_vpc_diagram_total_always(topology) ==
    << Line(0, <<"VPC: ", Or(topology.vpc.name, topology.vpc.resource_id)>>),
       Line(_indent(1), <<"CIDR: ", topology.vpc.cidr_block>>),
       Line(_indent(1), <<"State: ", topology.vpc.state>>),
       Line(_indent(1), <<"Default: ", PyBool(topology.vpc.is_default)>>),
       Line(_indent(1), <<"Total EC2 Instances: ">> \o Decimal(Len(topology.ec2_instances))),
       Blank >>

\* TextDiagramGenerator.generate_vpc_diagram: the lines it writes
generate_vpc_diagram(topology) ==
    LET public_subnets == get_public_subnets(topology)
        private_subnets == get_private_subnets(topology)
        total_instances == Len(topology.ec2_instances)
        igws == topology.internet_gateways
    IN  << Line(0, <<"VPC: ", Or(topology.vpc.name, topology.vpc.resource_id)>>),
           Line(_indent(1), <<"CIDR: ", topology.vpc.cidr_block>>),
           Line(_indent(1), <<"State: ", topology.vpc.state>>),
           Line(_indent(1), <<"Default: ", PyBool(topology.vpc.is_default)>>) >>
        \o (IF igws # <<>>
            THEN <<Line(_indent(1), <<"Internet Gateways:">>)>>
                 \o [k \in 1..Len(igws) |->
                        Line(_indent(2), <<igws[k].resource_id, " (", igws[k].state, ")">>)]
            ELSE <<>>)
        \o (IF public_subnets # <<>>
            THEN <<Line(_indent(1), <<"Public Subnets: ">> \o Decimal(Len(public_subnets)))>>
            ELSE <<>>)
        \o (IF private_subnets # <<>>
            THEN <<Line(_indent(1), <<"Private Subnets: ">> \o Decimal(Len(private_subnets)))>>
            ELSE <<>>)
        \o (IF total_instances # 0
            THEN <<Line(_indent(1), <<"Total EC2 Instances: ">> \o Decimal(total_instances))>>
            ELSE <<>>)
        \o <<Blank>>

\* account totals that leave out a total of zero
AccountTotalsZeroSuppressed(acct) ==
    LET Total(label, n) == IF n = 0 THEN <<>> ELSE <<Line(0, <<label>> \o Decimal(n))>>
    IN  << Line(0, <<"AWS Account - Region: ", acct.region>>) >>
        \o Total("Total VPCs: ", Len(acct.vpcs))
        \o Total("Total Instances: ", Len(get_all_instances(acct)))
        \o Total("Total Subnets: ", Len(get_all_subnets(acct)))
        \o <<Blank>>

\* the four writes that open generate_account_diagram, and the blank line
AccountTotals(acct) ==
    << Line(0, <<"AWS Account - Region: ", acct.region>>),
       Line(0, <<"Total VPCs: ">> \o Decimal(Len(acct.vpcs))),
       Line(0, <<"Total Instances: ">> \o Decimal(Len(get_all_instances(acct)))),
       Line(0, <<"Total Subnets: ">> \o Decimal(Len(get_all_subnets(acct)))),
       Blank >>

\* TextDiagramGenerator.generate_account_diagram: the lines it writes
generate_account_diagram(acct) ==
    AccountTotals(acct)
    \o Flatten([k \in 1..Len(acct.vpcs) |-> generate_vpc_diagram(acct.vpcs[k])])

\* the three writes that open generate_full_diagram
Banner ==
    << Line(0, Repeat("=", BannerWidth)),
       Line(0, <<"AWS CLOUD INFRASTRUCTURE MAP">>),
       Line(0, Repeat("=", BannerWidth)),
       Blank >>

\* the "DETAILED VPC BREAKDOWN:" heading and its rule
BreakdownHeading ==
    << Line(0, <<"DETAILED VPC BREAKDOWN:">>),
       Line(0, Repeat("-", RuleWidth)),
       Blank >>

\* the rule written after each subnet-level report
SeparatorRule == Line(0, Repeat("-", RuleWidth))

\* a full report that writes the separator rules before the reports
generate_full_diagram_rule_first(acct) ==
    Banner
    \o generate_account_diagram(acct)
    \o BreakdownHeading
    \o Flatten([k \in 1..Len(acct.vpcs) |->
                    <<SeparatorRule>> \o generate_subnet_diagram(acct.vpcs[k])])

\* TextDiagramGenerator.generate_full_diagram: the lines it writes
generate_full_diagram(acct) ==
    Banner
    \o generate_account_diagram(acct)
    \o BreakdownHeading
    \o Flatten([k \in 1..Len(acct.vpcs) |->
                    generate_subnet_diagram(acct.vpcs[k]) \o <<SeparatorRule>>])

-----------------------------------------------------------------------------
(* executor/organizer.py: the organizer whose NetworkTopology the PlantUML  *)
(* generator imports.  Beside the six lists of organizer.py its topology    *)
(* holds nat_gateways, route53_zones and api_gateways.                      *)

\* the NAT gateways whose subnet_id is the id of a subnet of the VPC
JoinNatGateways(nats, vpc_subnets) ==
    LET InVpc(nat) == \E k \in 1..Len(vpc_subnets) : vpc_subnets[k].resource_id = nat.subnet_id
    IN  SelectSeq(nats, InVpc)

\* the hosted zones whose vpc_associations hold the VPC's id
JoinZones(zones, vpc) ==
    LET Associated(zone) == vpc.resource_id \in Range(zone.vpc_associations)
    IN  SelectSeq(zones, Associated)

\* the API gateways whose VPC associations hold the VPC's id
JoinApis(apis, vpc) ==
    LET Associated(api) == vpc.resource_id \in Range(api.vpc_links)
    IN  SelectSeq(apis, Associated)

\* the organizer of executor/organizer.py: organize_network_topology with the
\* three further joins
organize(vs, subs, rts, igws, nats, insts, funcs, zones, apis) ==
    [i \in 1..Len(vs) |->
        LET base == TopologyOf(vs[i], subs, rts, igws, insts, funcs)
        IN  [vpc |-> base.vpc,
             subnets |-> base.subnets,
             route_tables |-> base.route_tables,
             internet_gateways |-> base.internet_gateways,
             ec2_instances |-> base.ec2_instances,
             lambda_functions |-> base.lambda_functions,
             nat_gateways |-> JoinNatGateways(nats, base.subnets),
             route53_zones |-> JoinZones(zones, vs[i]),
             api_gateways |-> JoinApis(apis, vs[i])]]

-----------------------------------------------------------------------------
(* presentation/plantuml_generator.py: PlantUMLDiagramGenerator.  The       *)
(* document is "\n".join(lines); a line is again [indent, text].  An        *)
(* identifier made by str.replace, and a field cut by a slice, is held as   *)
(* its characters, one fragment each.                                       *)

\* the characters of the strings that are sanitised or truncated
Chars(s) ==
    CASE s = "vpc-1" -> <<"v", "p", "c", "-", "1">>
      [] s = "vpc-2" -> <<"v", "p", "c", "-", "2">>
      [] s = "subnet-1" -> <<"s", "u", "b", "n", "e", "t", "-", "1">>
      [] s = "subnet-2" -> <<"s", "u", "b", "n", "e", "t", "-", "2">>
      [] s = "subnet-3" -> <<"s", "u", "b", "n", "e", "t", "-", "3">>
      [] s = "subnet-4" -> <<"s", "u", "b", "n", "e", "t", "-", "4">>
      [] s = "subnet-5" -> <<"s", "u", "b", "n", "e", "t", "-", "5">>
      [] s = "igw-1" -> <<"i", "g", "w", "-", "1">>
      [] s = "igw-2" -> <<"i", "g", "w", "-", "2">>
      [] s = "igw-3" -> <<"i", "g", "w", "-", "3">>
      [] s = "i-1" -> <<"i", "-", "1">>
      [] s = "i-2" -> <<"i", "-", "2">>
      [] s = "i-3" -> <<"i", "-", "3">>
      [] s = "i-4" -> <<"i", "-", "4">>
      [] s = "i-11" -> <<"i", "-", "1", "1">>
      [] s = "i-12" -> <<"i", "-", "1", "2">>
      [] s = "i-13" -> <<"i", "-", "1", "3">>
      [] s = "i-14" -> <<"i", "-", "1", "4">>
      [] s = "i-15" -> <<"i", "-", "1", "5">>
      [] s = "i-16" -> <<"i", "-", "1", "6">>
      [] s = "i-17" -> <<"i", "-", "1", "7">>
      [] s = "i-18" -> <<"i", "-", "1", "8">>
      [] s = "i-19" -> <<"i", "-", "1", "9">>
      [] s = "nat-1" -> <<"n", "a", "t", "-", "1">>
      [] s = "nat-2" -> <<"n", "a", "t", "-", "2">>
      [] s = "Z1A" -> <<"Z", "1", "A">>
      [] s = "Z2B" -> <<"Z", "2", "B">>
      [] s = "Z3C" -> <<"Z", "3", "C">>
      [] s = "a1b2c3" -> <<"a", "1", "b", "2", "c", "3">>
      [] s = "d4e5f6" -> <<"d", "4", "e", "5", "f", "6">>
      [] s = "us-east-1a" -> <<"u", "s", "-", "e", "a", "s", "t", "-", "1", "a">>
      [] s = "us-east-1b" -> <<"u", "s", "-", "e", "a", "s", "t", "-", "1", "b">>
      [] s = "rtb-11" -> <<"r", "t", "b", "-", "1", "1">>
      [] s = "rtb-12" -> <<"r", "t", "b", "-", "1", "2">>
      [] s = "rtb-13" -> <<"r", "t", "b", "-", "1", "3">>
      [] s = "rtb-14" -> <<"r", "t", "b", "-", "1", "4">>
      [] s = "rtb-15" -> <<"r", "t", "b", "-", "1", "5">>
      [] s = "rtb-16" -> <<"r", "t", "b", "-", "1", "6">>
      [] s = "rtb-17" -> <<"r", "t", "b", "-", "1", "7">>
      [] s = "rtb-18" -> <<"r", "t", "b", "-", "1", "8">>
      [] s = "rtb-19" -> <<"r", "t", "b", "-", "1", "9">>
      [] s = "private-route-table-us-east-1a" -> <<"p", "r", "i", "v", "a", "t", "e", "-", "r", "o", "u", "t", "e", "-", "t", "a", "b", "l", "e", "-", "u", "s", "-", "e", "a", "s", "t", "-", "1", "a">>
      [] s = "igw-0123456789abcdef0" -> <<"i", "g", "w", "-", "0", "1", "2", "3", "4", "5", "6", "7", "8", "9", "a", "b", "c", "d", "e", "f", "0">>
      [] s = "192.168.100.128/25" -> <<"1", "9", "2", ".", "1", "6", "8", ".", "1", "0", "0", ".", "1", "2", "8", "/", "2", "5">>
      [] s = "nat-0123456789abcdef0" -> <<"n", "a", "t", "-", "0", "1", "2", "3", "4", "5", "6", "7", "8", "9", "a", "b", "c", "d", "e", "f", "0">>
      [] s = "blackhole" -> <<"b", "l", "a", "c", "k", "h", "o", "l", "e">>
      [] s = "100.64.0.0/10" -> <<"1", "0", "0", ".", "6", "4", ".", "0", ".", "0", "/", "1", "0">>
      [] s = "vgw-1" -> <<"v", "g", "w", "-", "1">>
      [] s = "" -> <<>>
      [] s = "igw-4" -> <<"i", "g", "w", "-", "4">>
      [] s = "nat-3" -> <<"n", "a", "t", "-", "3">>
      [] s = "vpc-9.a" -> <<"v", "p", "c", "-", "9", ".", "a">>
      [] s = "subnet-9.a" -> <<"s", "u", "b", "n", "e", "t", "-", "9", ".", "a">>
      [] s = "igw-9.a" -> <<"i", "g", "w", "-", "9", ".", "a">>
      [] s = "nat-9.a" -> <<"n", "a", "t", "-", "9", ".", "a">>
      [] s = "i-9.a" -> <<"i", "-", "9", ".", "a">>
      [] s = "Z9.A" -> <<"Z", "9", ".", "A">>
      [] s = "api-9.a" -> <<"a", "p", "i", "-", "9", ".", "a">>
      [] s = "us-east-1.a" -> <<"u", "s", "-", "e", "a", "s", "t", "-", "1", ".", "a">>
      [] s = "rtb-1" -> <<"r", "t", "b", "-", "1">>
      [] s = "rtb-2" -> <<"r", "t", "b", "-", "2">>
      [] s = "rtb-3" -> <<"r", "t", "b", "-", "3">>
      [] s = "main" -> <<"m", "a", "i", "n">>
      [] s = "10.0.0.0/16" -> <<"1", "0", ".", "0", ".", "0", ".", "0", "/", "1", "6">>
      [] s = "0.0.0.0/0" -> <<"0", ".", "0", ".", "0", ".", "0", "/", "0">>
      [] s = "172.31.0.0/16" -> <<"1", "7", "2", ".", "3", "1", ".", "0", ".", "0", "/", "1", "6">>
      [] s = "local" -> <<"l", "o", "c", "a", "l">>
      [] s = "active" -> <<"a", "c", "t", "i", "v", "e">>
      [] s = "N/A" -> <<"N", "/", "A">>

\* chars.replace(old, new) for one-character old and new
Replace(chars, old, new) ==
    [k \in 1..Len(chars) |-> IF chars[k] = old THEN new ELSE chars[k]]

\* chars[:n]
Take(chars, n) == SubSeq(chars, 1, IF Len(chars) < n THEN Len(chars) ELSE n)

\* dict.get(key, default)
Get(dict, key, default) == IF key \in DOMAIN dict THEN dict[key] ELSE default

\* resource_id.replace('-', '_')
NodeId(resource_id) == Replace(Chars(resource_id), "-", "_")

\* az.replace('-', '_').replace('.', '_')
AzId(az) == Replace(Replace(Chars(az), "-", "_"), ".", "_")

\* instances per row: range(0, len(instances), 3) and instances[i:i+3]
RowSize == 3

\* the slices of the routing note
NoteRouteTables == 5
NoteRoutes == 3
NameWidth == 20
DestinationWidth == 18
TargetWidth == 18
StatusWidth == 10

\* the entries of s without repetition, in the order they are first seen
RECURSIVE FirstSeen(_)
FirstSeen(s) ==
    IF s = <<>> THEN <<>>
    ELSE LET before == FirstSeen(SubSeq(s, 1, Len(s) - 1))
             last == s[Len(s)]
         IN  IF last \in Range(before) THEN before ELSE Append(before, last)

\* az_groups that opens a new group whenever the zone differs from the zone
\* of the subnet before
RECURSIVE az_groups_by_run(_)
az_groups_by_run(topology) ==
    LET subs == topology.subnets
        n == Len(subs)
    IN  IF n = 0 THEN <<>>
        ELSE LET before == az_groups_by_run([topology EXCEPT !.subnets = SubSeq(subs, 1, n - 1)])
                 sn == subs[n]
                 alone == [az |-> sn.availability_zone,
                           public |-> IF sn.map_public_ip_on_launch THEN <<sn>> ELSE <<>>,
                           private |-> IF sn.map_public_ip_on_launch THEN <<>> ELSE <<sn>>]
                 m == Len(before)
             IN  IF m > 0 /\ before[m].az = sn.availability_zone
                 THEN [before EXCEPT ![m] = [az |-> sn.availability_zone,
                                             public |-> before[m].public \o alone.public,
                                             private |-> before[m].private \o alone.private]]
                 ELSE Append(before, alone)

\* az_groups: per availability zone in first-seen order, its public and its
\* private subnets in list order
az_groups(topology) ==
    LET azs == FirstSeen([k \in 1..Len(topology.subnets) |->
                              topology.subnets[k].availability_zone])
    IN  [a \in 1..Len(azs) |->
            LET Public(sn) == sn.availability_zone = azs[a] /\ sn.map_public_ip_on_launch
                Private(sn) == sn.availability_zone = azs[a] /\ ~sn.map_public_ip_on_launch
            IN  [az |-> azs[a],
                 public |-> SelectSeq(topology.subnets, Public),
                 private |-> SelectSeq(topology.subnets, Private)]]

\* [nat for nat in topology.nat_gateways if nat.subnet_id == subnet.resource_id]
NatGatewaysIn(topology, subnet) ==
    LET InSubnet(nat) == nat.subnet_id = subnet.resource_id
    IN  SelectSeq(topology.nat_gateways, InSubnet)

NatGatewayNode(nat) ==
    Line(8, <<"VPCNATGateway(">> \o NodeId(nat.resource_id)
            \o <<", \"", Or(nat.name, "NAT Gateway"), "\", \"\") #Transparent">>)

InstanceNode(instance) ==
    Line(8, <<"EC2Instance(">> \o NodeId(instance.resource_id)
            \o <<", \"", Or(instance.name, "Instance"), "\\n",
                 instance.instance_type, "\", \"\") #Transparent">>)

\* one row: its instance nodes, then the hidden edges between neighbours
InstanceRow(row) ==
    [k \in 1..Len(row) |-> InstanceNode(row[k])]
    \o [j \in 1..Len(row) - 1 |->
           Line(8, NodeId(row[j].resource_id) \o <<" -[hidden]r- ">>
                   \o NodeId(row[j + 1].resource_id))]

\* the instances of a subnet as one unbroken row
InstanceRowsUnbroken(instances) == InstanceRow(instances)

\* the instances of a subnet in rows of RowSize
InstanceRows(instances) ==
    LET n == Len(instances)
        rows == (n + RowSize - 1) \div RowSize
    IN  Flatten([r \in 1..rows |->
            InstanceRow(SubSeq(instances, RowSize * (r - 1) + 1,
                               IF RowSize * r < n THEN RowSize * r ELSE n))])

PublicSubnetGroup(topology, subnet) ==
    LET nats == NatGatewaysIn(topology, subnet)
    IN  << Line(6, <<"PublicSubnetGroup(">> \o NodeId(subnet.resource_id)
                   \o <<", \"Public subnet\\n", subnet.cidr_block, "\") {">>) >>
        \o [k \in 1..Len(nats) |-> NatGatewayNode(nats[k])]
        \o InstanceRows(get_instances_by_subnet(topology, subnet.resource_id))
        \o << Line(6, <<"}">>) >>

PrivateSubnetGroup(topology, subnet) ==
    << Line(6, <<"PrivateSubnetGroup(">> \o NodeId(subnet.resource_id)
               \o <<", \"Private subnet\\n", subnet.cidr_block, "\") {">>) >>
    \o InstanceRows(get_instances_by_subnet(topology, subnet.resource_id))
    \o << Line(6, <<"}">>) >>

AvailabilityZoneGroup(topology, group) ==
    << Blank,
       Line(4, <<"AvailabilityZoneGroup(">> \o AzId(group.az)
               \o <<", \"\\t", group.az, "\\t\") {">>) >>
    \o Flatten([k \in 1..Len(group.public) |-> PublicSubnetGroup(topology, group.public[k])])
    \o Flatten([k \in 1..Len(group.private) |-> PrivateSubnetGroup(topology, group.private[k])])
    \o << Line(4, <<"}">>) >>

\* igw_ids
igw_ids(topology) ==
    [k \in 1..Len(topology.internet_gateways) |->
        NodeId(topology.internet_gateways[k].resource_id)]

\* nat_gateway_ids: collected while the public subnet groups are written
nat_gateway_ids(topology) ==
    LET groups == az_groups(topology)
        OfSubnet(subnet) ==
            LET nats == NatGatewaysIn(topology, subnet)
            IN  [k \in 1..Len(nats) |-> NodeId(nats[k].resource_id)]
    IN  Flatten([a \in 1..Len(groups) |->
            Flatten([k \in 1..Len(groups[a].public) |-> OfSubnet(groups[a].public[k])])])

\* ec2_ids: collected while the subnet groups are written
ec2_ids(topology) ==
    LET groups == az_groups(topology)
        OfSubnet(subnet) ==
            LET instances == get_instances_by_subnet(topology, subnet.resource_id)
            IN  [k \in 1..Len(instances) |-> NodeId(instances[k].resource_id)]
    IN  Flatten([a \in 1..Len(groups) |->
            Flatten([k \in 1..Len(groups[a].public) |-> OfSubnet(groups[a].public[k])])
            \o Flatten([k \in 1..Len(groups[a].private) |-> OfSubnet(groups[a].private[k])])])

\* Route53 nodes for the first zone of the topology only
Route53NodesFirstOnly(topology) ==
    LET zones == Take(topology.route53_zones, 1)
    IN  [k \in 1..Len(zones) |->
            Line(0, <<"Route53(">> \o NodeId(zones[k].resource_id)
                    \o <<", \"", zones[k].zone_name, "\\n",
                         IF zones[k].private_zone THEN "Private" ELSE "Public",
                         " Zone\", \"\")">>)]

\* the Route53 nodes written outside the cloud group
Route53Nodes(topology) ==
    [k \in 1..Len(topology.route53_zones) |->
        LET zone == topology.route53_zones[k]
        IN  Line(0, <<"Route53(">> \o NodeId(zone.resource_id)
                    \o <<", \"", zone.zone_name, "\\n",
                         IF zone.private_zone THEN "Private" ELSE "Public",
                         " Zone\", \"\")">>)]

\* the API Gateway nodes written outside the cloud group
ApiGatewayNodes(topology) ==
    [k \in 1..Len(topology.api_gateways) |->
        LET api == topology.api_gateways[k]
        IN  Line(0, <<"APIGateway(">> \o NodeId(api.resource_id)
                    \o <<", \"", api.api_name, "\\n", api.api_type, "\", \"\")">>)]

\* NAT gateway edges drawn to the last internet gateway
NatFlowEdgesToLast(topology) ==
    LET nats == nat_gateway_ids(topology)
        igws == igw_ids(topology)
    IN  IF nats # <<>> /\ igws # <<>>
        THEN << Line(0, <<"' Network Flow Connections">>) >>
             \o [k \in 1..Len(nats) |-> Line(0, nats[k] \o <<" .u.> ">> \o igws[Len(igws)])]
        ELSE <<>>

\* the NAT gateway -> first internet gateway edges
NatFlowEdges(topology) ==
    LET nats == nat_gateway_ids(topology)
        igws == igw_ids(topology)
    IN  IF nats # <<>> /\ igws # <<>>
        THEN << Line(0, <<"' Network Flow Connections">>) >>
             \o [k \in 1..Len(nats) |-> Line(0, nats[k] \o <<" .u.> ">> \o igws[1])]
        ELSE <<>>

\* edges to the first NAT gateway drawn from every instance of the topology
\* that is not in a public subnet, placed in a subnet or not
InstanceFlowEdgesUnplaced(topology) ==
    LET nats == nat_gateway_ids(topology)
        Public(instance) ==
            \E k \in 1..Len(topology.subnets) :
                /\ topology.subnets[k].resource_id = instance.subnet_id
                /\ topology.subnets[k].map_public_ip_on_launch
        NotPublic(instance) == ~Public(instance)
        instances == SelectSeq(topology.ec2_instances, NotPublic)
    IN  IF ec2_ids(topology) # <<>> /\ nats # <<>>
        THEN [k \in 1..Len(instances) |->
                 Line(0, NodeId(instances[k].resource_id) \o <<" .u.> ">> \o nats[1])]
        ELSE <<>>

\* the private instance -> first NAT gateway edges
InstanceFlowEdges(topology) ==
    LET nats == nat_gateway_ids(topology)
        groups == az_groups(topology)
        OfSubnet(subnet) ==
            LET instances == get_instances_by_subnet(topology, subnet.resource_id)
            IN  [k \in 1..Len(instances) |->
                    Line(0, NodeId(instances[k].resource_id) \o <<" .u.> ">> \o nats[1])]
    IN  IF ec2_ids(topology) # <<>> /\ nats # <<>>
        THEN Flatten([a \in 1..Len(groups) |->
                 Flatten([k \in 1..Len(groups[a].private) |-> OfSubnet(groups[a].private[k])])])
        ELSE <<>>

\* hidden edges drawn for every NAT gateway, the first included
HiddenNatEdgesAll(topology) ==
    LET nats == nat_gateway_ids(topology)
        igws == igw_ids(topology)
    IN  IF Len(nats) > 1 /\ igws # <<>>
        THEN [k \in 1..Len(nats) |->
                 Line(0, nats[k] \o <<" .[hidden]u.> ">> \o igws[1])]
        ELSE <<>>

\* the hidden edges of the NAT gateways after the first
HiddenNatEdges(topology) ==
    LET nats == nat_gateway_ids(topology)
        igws == igw_ids(topology)
    IN  IF Len(nats) > 1 /\ igws # <<>>
        THEN [k \in 1..Len(nats) - 1 |->
                 Line(0, nats[k + 1] \o <<" .[hidden]u.> ">> \o igws[1])]
        ELSE <<>>

\* PlantUMLDiagramGenerator._generate_vpc_diagram_lines
_generate_vpc_diagram_lines(topology) ==
    LET vpc_name == Or(topology.vpc.name, topology.vpc.resource_id)
        vpc_id == NodeId(topology.vpc.resource_id)
        igws == igw_ids(topology)
        groups == az_groups(topology)
    IN  << Line(0, <<"AWSCloudGroup(cloud_">> \o vpc_id \o <<") {">>),
           Line(2, <<"VPCGroup(">> \o vpc_id \o <<", \"", vpc_name, "\") {">>) >>
        \o [k \in 1..Len(igws) |->
               Line(4, <<"VPCInternetGateway(">> \o igws[k]
                       \o <<", \"Internet Gateway\", \"\")">>)]
        \o Flatten([a \in 1..Len(groups) |-> AvailabilityZoneGroup(topology, groups[a])])
        \o << Line(2, <<"}">>), Line(0, <<"}">>) >>
        \o Route53Nodes(topology)
        \o ApiGatewayNodes(topology)
        \o << Blank >>
        \o NatFlowEdges(topology)
        \o InstanceFlowEdges(topology)
        \o HiddenNatEdges(topology)
        \o << Blank >>

\* the fixed lines that open the document, up to the title
Preamble ==
    << Line(0, <<"@startuml">>),
       Line(0, <<"!define AWSPuml https://raw.githubusercontent.com/awslabs/aws-icons-for-plantuml/v20.0/dist">>),
       Line(0, <<"!include AWSPuml/AWSCommon.puml">>),
       Line(0, <<"!include AWSPuml/AWSSimplified.puml">>),
       Line(0, <<"!include AWSPuml/Compute/EC2.puml">>),
       Line(0, <<"!include AWSPuml/Compute/EC2Instance.puml">>),
       Line(0, <<"!include AWSPuml/Compute/Lambda.puml">>),
       Line(0, <<"!include AWSPuml/NetworkingContentDelivery/VPCNATGateway.puml">>),
       Line(0, <<"!include AWSPuml/NetworkingContentDelivery/VPCInternetGateway.puml">>),
       Line(0, <<"!include AWSPuml/NetworkingContentDelivery/APIGateway.puml">>),
       Line(0, <<"!include AWSPuml/NetworkingContentDelivery/Route53.puml">>),
       Line(0, <<"!include AWSPuml/Groups/AWSCloud.puml">>),
       Line(0, <<"!include AWSPuml/Groups/VPC.puml">>),
       Line(0, <<"!include AWSPuml/Groups/PublicSubnet.puml">>),
       Line(0, <<"!include AWSPuml/Groups/PrivateSubnet.puml">>),
       Line(0, <<"!include AWSPuml/Groups/AvailabilityZone.puml">>),
       Blank,
       Line(0, <<"hide stereotype">>),
       Line(0, <<"skinparam linetype ortho">>),
       Blank >>

\* the rows of one route table in the routing note
RouteRows(rt) ==
    LET rt_name == Take(Chars(Or(rt.name, rt.resource_id)), NameWidth)
        routes == Take(rt.routes, NoteRoutes)
    IN  [k \in 1..Len(routes) |->
            LET dest == Take(Chars(Get(routes[k], "destination", "N/A")), DestinationWidth)
                gateway == Take(Chars(Get(routes[k], "gateway_id", "local")), TargetWidth)
                status == Take(Chars(Get(routes[k], "state", "active")), StatusWidth)
            IN  Line(0, <<"| ">> \o rt_name \o <<" | ">> \o dest \o <<" | ">>
                        \o gateway \o <<" | ">> \o status \o <<" |">>)]

\* the routing note that closes the document
RoutingNote(acct) ==
    IF \E i \in 1..Len(acct.vpcs) : acct.vpcs[i].route_tables # <<>>
    THEN << Blank,
            Line(0, <<"note bottom">>),
            Line(0, <<"<size:12><b>Routing Tables</b></size>">>),
            Line(0, <<"<#lightblue,#black>|= Route Table |= Destination |= Target |= Status |">>) >>
         \o Flatten([i \in 1..Len(acct.vpcs) |->
                LET rts == Take(acct.vpcs[i].route_tables, NoteRouteTables)
                IN  Flatten([k \in 1..Len(rts) |-> RouteRows(rts[k])])])
         \o << Line(0, <<"end note">>) >>
    ELSE <<>>

\* PlantUMLDiagramGenerator._generate_plantuml_content: the lines it joins
_generate_plantuml_content(acct) ==
    Preamble
    \o << Line(0, <<"title AWS Infrastructure - ", acct.region>>), Blank >>
    \o Flatten([i \in 1..Len(acct.vpcs) |-> _generate_vpc_diagram_lines(acct.vpcs[i])])
    \o RoutingNote(acct)
    \o << Line(0, <<"@enduml">>) >>

-----------------------------------------------------------------------------
(* models.py: construction of a resource record. *)

\* the dataclasses of models.py and the resource_type each sets
Kinds ==
    {"VPC", "Subnet", "RouteTable", "InternetGateway", "EC2Instance",
     "LambdaFunction", "Route53HostedZone", "APIGateway"}

TypeOf(kind) ==
    CASE kind = "VPC" -> "vpc"
      [] kind = "Subnet" -> "subnet"
      [] kind = "RouteTable" -> "route_table"
      [] kind = "InternetGateway" -> "internet_gateway"
      [] kind = "EC2Instance" -> "ec2_instance"
      [] kind = "LambdaFunction" -> "lambda_function"
      [] kind = "Route53HostedZone" -> "route53_hosted_zone"
      [] kind = "APIGateway" -> "api_gateway"

\* the name argument: left out (None), empty, or a name
NamePool == {None, "", "db-1"}

\* the tags argument: a dict str -> str
TagPool ==
    { <<>>,
      "Name" :> "web-1",
      "Name" :> "",
      "Env" :> "prod",
      ("Name" :> "web-2") @@ ("Env" :> "prod") }

\* __post_init__ that lets the Name tag win over the name argument
post_init_tag_first(name, tags) ==
    IF "Name" \in DOMAIN tags THEN tags["Name"] ELSE name

\* BaseResource.__post_init__: the name after it ran (every dataclass of
\* models.py has the name field)
__post_init__(name, tags) ==
    IF ~Truthy(name) /\ "Name" \in DOMAIN tags THEN tags["Name"] ELSE name

NoResource == [stage |-> "none"]

\* the arguments of a constructor call
InitResource ==
    resource \in [stage : {"args"}, kind : Kinds, supplied : NamePool,
                  given_tags : TagPool]

\* Kind(..., name=supplied, tags=given_tags): the dataclass __init__ assigns
\* the fields, then the class's __post_init__ runs the base one and sets
\* resource_type
Construct ==
    /\ resource.stage = "args"
    /\ resource' = [stage |-> "built", kind |-> resource.kind,
                    supplied |-> resource.supplied, given_tags |-> resource.given_tags,
                    resource_type |-> TypeOf(resource.kind),
                    name |-> __post_init__(resource.supplied, resource.given_tags),
                    tags |-> resource.given_tags]
    /\ UNCHANGED <<inputs, again, organizer, topologies, account, output, generator,
                   saved, call, pc>>

\* a caller assigns to the tags of a constructed resource
ChangeTags ==
    /\ resource.stage \in {"built", "retagged"}
    /\ \E tags \in TagPool \ {resource.tags} :
          resource' = [resource EXCEPT !.stage = "retagged", !.tags = tags]
    /\ UNCHANGED <<inputs, again, organizer, topologies, account, output, generator,
                   saved, call, pc>>

-----------------------------------------------------------------------------
(* The run. *)

NoCall == [op |-> "none", arg |-> 0]

Idle ==
    /\ organizer = "none"
    /\ topologies = <<>>
    /\ account = <<>>
    /\ output = <<>>
    /\ generator = [output_manager |-> FALSE, session_dir |-> FALSE]
    /\ saved = <<>>
    /\ call = NoCall
    /\ again = <<>>
    /\ resource = NoResource
    /\ pc = "discovered"

\* Inputs varying the VPC, subnet and instance lists.
InitNetwork ==
    /\ vpcs \in VpcLists
    /\ subnets \in SeqsUpTo(SubnetPool, MaxSubnets)
    /\ ec2_instances \in SeqsUpTo(InstancePool, MaxInstances)
    /\ route_tables = <<>>
    /\ internet_gateways = <<>>
    /\ lambda_functions = <<>>
    /\ nat_gateways = <<>>
    /\ route53_zones = <<>>
    /\ api_gateways = <<>>

\* Inputs varying the VPC, route table and internet gateway lists.
InitGateways ==
    /\ vpcs \in VpcLists
    /\ route_tables \in SeqsUpTo(RouteTablePool, MaxRouteTables)
    /\ internet_gateways \in SeqsUpTo(GatewayPool, MaxGateways)
    /\ subnets = <<>>
    /\ ec2_instances = <<>>
    /\ lambda_functions = <<>>
    /\ nat_gateways = <<>>
    /\ route53_zones = <<>>
    /\ api_gateways = <<>>

\* Inputs varying the VPC, subnet and Lambda function lists.
InitFunctions ==
    /\ vpcs \in VpcLists
    /\ subnets \in SeqsUpTo(SubnetPool, MaxSubnets)
    /\ lambda_functions \in SeqsUpTo(FunctionPool, MaxFunctions)
    /\ ec2_instances = <<>>
    /\ route_tables = <<>>
    /\ internet_gateways = <<>>
    /\ nat_gateways = <<>>
    /\ route53_zones = <<>>
    /\ api_gateways = <<>>

\* Inputs varying the VPC, hosted zone and API gateway lists.
InitDns ==
    /\ vpcs \in VpcLists
    /\ route53_zones \in SeqsUpTo(ZonePool, MaxZones)
    /\ api_gateways \in SeqsUpTo(ApiPool, MaxApis)
    /\ subnets = <<>>
    /\ ec2_instances = <<>>
    /\ route_tables = <<>>
    /\ internet_gateways = <<>>
    /\ lambda_functions = <<>>
    /\ nat_gateways = <<>>

\* Inputs varying the VPC, subnet and NAT gateway lists, with gateways and
\* instances present.
InitEgress ==
    /\ vpcs \in VpcLists
    /\ subnets \in SeqsUpTo(SubnetPool, MaxSubnets)
    /\ nat_gateways \in SeqsUpTo(NatGatewayPool, MaxNatGateways)
    /\ internet_gateways \in {<<>>, <<MkGateway("igw-1", "vpc-1", "available")>>,
                               <<MkGateway("igw-4", "vpc-1", "available"),
                                 MkGateway("igw-1", "vpc-1", "available")>>}
    /\ ec2_instances \in {<<>>, << MkInstance("i-1", None, "vpc-1", "subnet-1", "10.0.1.5", None),
                                   MkInstance("i-3", None, "vpc-1", "subnet-2", "10.0.2.7", None) >>,
                                << MkInstance("i-3", None, "vpc-1", "subnet-2", "10.0.2.7", None),
                                   MkInstance("i-3", None, "vpc-1", "subnet-2", "10.0.2.7", None) >>}
    /\ route_tables = <<>>
    /\ lambda_functions = <<>>
    /\ route53_zones = <<>>
    /\ api_gateways = <<>>

\* Inputs varying the order of the subnets of one VPC over two availability
\* zones.
InitAvailabilityZones ==
    /\ vpcs = << MkVpc("vpc-1", "prod", "10.0.0.0/16", FALSE) >>
    /\ subnets \in {s \in SeqsUpTo(ZoneSubnetPool, MaxZoneSubnets) :
                        \A i, j \in 1..Len(s) : i # j => s[i] # s[j]}
    /\ ec2_instances = <<>>
    /\ route_tables = <<>>
    /\ internet_gateways = <<>>
    /\ lambda_functions = <<>>
    /\ nat_gateways = <<>>
    /\ route53_zones = <<>>
    /\ api_gateways = <<>>

\* Inputs whose resource ids and zone name hold a dot besides the hyphens: one
\* VPC with a public subnet, and each other kind present or not.
InitIdentifiers ==
    /\ vpcs = << MkVpc("vpc-9.a", None, "10.9.0.0/16", FALSE) >>
    /\ subnets = << MkSubnet("subnet-9.a", None, "vpc-9.a", "10.9.1.0/24", "us-east-1.a", TRUE) >>
    /\ internet_gateways \in {<<>>, << MkGateway("igw-9.a", "vpc-9.a", "available") >>}
    /\ nat_gateways \in {<<>>, << MkNatGateway("nat-9.a", None, "subnet-9.a") >>}
    /\ ec2_instances \in {<<>>, << MkInstance("i-9.a", None, "vpc-9.a", "subnet-9.a", "10.9.1.5", None) >>}
    /\ route53_zones \in {<<>>, << MkZone("Z9.A", "nine.internal.", TRUE, <<"vpc-9.a">>) >>}
    /\ api_gateways \in {<<>>, << MkApi("api-9.a", "nine", "REST", <<"vpc-9.a">>) >>}
    /\ route_tables = <<>>
    /\ lambda_functions = <<>>

\* the ids of the instances of the row inputs
RowInstanceIds == <<"i-11", "i-12", "i-13", "i-14", "i-15", "i-16", "i-17", "i-18", "i-19">>

\* Inputs varying how many instances there are and which subnet each one
\* names: a public subnet, a private subnet, or a subnet that is not in the
\* account.
InitRows ==
    /\ vpcs = << MkVpc("vpc-1", "prod", "10.0.0.0/16", FALSE) >>
    /\ subnets = << MkSubnet("subnet-1", "web", "vpc-1", "10.0.1.0/24", "us-east-1a", TRUE),
                    MkSubnet("subnet-2", None, "vpc-1", "10.0.2.0/24", "us-east-1b", FALSE) >>
    /\ \E n \in 0..MaxRowInstances : \E home \in [1..n -> {"subnet-1", "subnet-2", "subnet-404"}] :
          ec2_instances = [k \in 1..n |->
              MkInstance(RowInstanceIds[k], None, "vpc-1", home[k], "10.0.1.5", None)]
    /\ internet_gateways = << MkGateway("igw-1", "vpc-1", "available") >>
    /\ nat_gateways = << MkNatGateway("nat-1", None, "subnet-1"),
                         MkNatGateway("nat-3", None, "subnet-1") >>
    /\ route_tables = <<>>
    /\ lambda_functions = <<>>
    /\ route53_zones = <<>>
    /\ api_gateways = <<>>

\* Inputs varying how many route tables there are and how they are spread
\* over two VPCs.
InitRoutes ==
    /\ vpcs = << MkVpc("vpc-1", "prod", "10.0.0.0/16", FALSE),
                 MkVpc("vpc-2", None, "172.31.0.0/16", TRUE) >>
    /\ \E n \in 0..MaxNoteTables : \E home \in [1..n -> {"vpc-1", "vpc-2"}] :
          route_tables = [k \in 1..n |-> NoteTable(k, home[k])]
    /\ subnets = <<>>
    /\ ec2_instances = <<>>
    /\ internet_gateways = <<>>
    /\ lambda_functions = <<>>
    /\ nat_gateways = <<>>
    /\ route53_zones = <<>>
    /\ api_gateways = <<>>

Init ==
    /\ \/ InitNetwork
       \/ InitGateways
       \/ InitFunctions
       \/ InitDns
       \/ InitEgress
       \/ InitAvailabilityZones
       \/ InitRoutes
       \/ InitIdentifiers
       \/ InitRows
    /\ Idle

\* CloudMapService.discover_infrastructure: the call of ResourceOrganizer
Organize ==
    /\ pc = "discovered"
    /\ topologies' = organize_network_topology(vpcs, subnets, route_tables,
                         internet_gateways, ec2_instances, lambda_functions)
    /\ organizer' = "organizer"
    /\ pc' = "organized"
    /\ UNCHANGED <<inputs, aside, account, output, generator, saved, call>>

\* the call of the organizer of executor/organizer.py
OrganizeExecutor ==
    /\ pc = "discovered"
    /\ topologies' = organize(vpcs, subnets, route_tables, internet_gateways,
                         nat_gateways, ec2_instances, lambda_functions,
                         route53_zones, api_gateways)
    /\ organizer' = "executor.organizer"
    /\ pc' = "organized"
    /\ UNCHANGED <<inputs, aside, account, output, generator, saved, call>>

CreateAccount ==
    /\ pc = "organized"
    /\ account' = <<create_account_topology(Region, topologies)>>
    /\ pc' = "assembled"
    /\ UNCHANGED <<inputs, aside, organizer, topologies, output, generator, saved, call>>

\* a generator that saves whenever it has an output manager, with or without
\* a session directory
GeneratePlantUmlSaveWithManager ==
    /\ pc = "assembled"
    /\ organizer = "executor.organizer"
    /\ \E om \in BOOLEAN, dir \in BOOLEAN :
          LET content == _generate_plantuml_content(account[1])
          IN  /\ generator' = [output_manager |-> om, session_dir |-> dir]
              /\ output' = output \o content
              /\ saved' = IF om
                          THEN Append(saved, [content |-> content, region |-> account[1].region])
                          ELSE saved
    /\ call' = [op |-> "plantuml.generate_full_diagram", arg |-> 0]
    /\ pc' = "rendered"
    /\ UNCHANGED <<inputs, aside, organizer, topologies, account>>

\* PlantUMLDiagramGenerator(output_manager, session_dir).generate_full_diagram
\* on a fresh sink: one write of the joined lines, and the save when both
\* constructor arguments are set
GeneratePlantUml ==
    /\ pc = "assembled"
    /\ organizer = "executor.organizer"
    /\ \E om \in BOOLEAN, dir \in BOOLEAN :
          LET content == _generate_plantuml_content(account[1])
          IN  /\ generator' = [output_manager |-> om, session_dir |-> dir]
              /\ output' = output \o content
              /\ saved' = IF om /\ dir
                          THEN Append(saved, [content |-> content, region |-> account[1].region])
                          ELSE saved
    /\ call' = [op |-> "plantuml.generate_full_diagram", arg |-> 0]
    /\ pc' = "rendered"
    /\ UNCHANGED <<inputs, aside, organizer, topologies, account>>

\* the text generator is wired to ResourceOrganizer (main.py)
TextReady == pc = "assembled" /\ organizer = "organizer"

\* the full report by a renderer that pops each topology off the account as
\* it writes it
GenerateFullDiagramDraining ==
    /\ TextReady
    /\ output' = output \o generate_full_diagram(account[1])
    /\ account' = <<[account[1] EXCEPT !.vpcs = <<>>]>>
    /\ call' = [op |-> "generate_full_diagram", arg |-> 0]
    /\ pc' = "rendered"
    /\ UNCHANGED <<inputs, aside, organizer, topologies, generator, saved>>

\* CloudMapService.generate_diagram: the full report on a fresh sink
GenerateFullDiagram ==
    /\ TextReady
    /\ output' = output \o generate_full_diagram(account[1])
    /\ call' = [op |-> "generate_full_diagram", arg |-> 0]
    /\ pc' = "rendered"
    /\ UNCHANGED <<inputs, aside, organizer, topologies, account, generator, saved>>

GenerateAccountDiagram ==
    /\ TextReady
    /\ output' = output \o generate_account_diagram(account[1])
    /\ call' = [op |-> "generate_account_diagram", arg |-> 0]
    /\ pc' = "rendered"
    /\ UNCHANGED <<inputs, aside, organizer, topologies, account, generator, saved>>

GenerateVpcDiagram ==
    /\ TextReady
    /\ \E k \in 1..Len(account[1].vpcs) :
          /\ output' = output \o generate_vpc_diagram(account[1].vpcs[k])
          /\ call' = [op |-> "generate_vpc_diagram", arg |-> k]
    /\ pc' = "rendered"
    /\ UNCHANGED <<inputs, aside, organizer, topologies, account, generator, saved>>

GenerateSubnetDiagram ==
    /\ TextReady
    /\ \E k \in 1..Len(account[1].vpcs) :
          /\ output' = output \o generate_subnet_diagram(account[1].vpcs[k])
          /\ call' = [op |-> "generate_subnet_diagram", arg |-> k]
    /\ pc' = "rendered"
    /\ UNCHANGED <<inputs, aside, organizer, topologies, account, generator, saved>>

\* a second call of generate_full_diagram, same generator and AccountTopology,
\* on another fresh sink
GenerateFullDiagramAgain ==
    /\ pc = "rendered"
    /\ call.op = "generate_full_diagram"
    /\ again' = again \o generate_full_diagram(account[1])
    /\ pc' = "repeated"
    /\ UNCHANGED <<inputs, resource, organizer, topologies, account, output, generator, saved, call>>

\* a second evaluation of _generate_plantuml_content on the same AccountTopology
GeneratePlantUmlContentAgain ==
    /\ pc = "rendered"
    /\ call.op = "plantuml.generate_full_diagram"
    /\ again' = again \o _generate_plantuml_content(account[1])
    /\ pc' = "repeated"
    /\ UNCHANGED <<inputs, resource, organizer, topologies, account, output, generator, saved, call>>

Next ==
    \/ Organize
    \/ OrganizeExecutor
    \/ CreateAccount
    \/ GenerateFullDiagram
    \/ GenerateAccountDiagram
    \/ GenerateVpcDiagram
    \/ GenerateSubnetDiagram
    \/ GeneratePlantUml
    \/ GenerateFullDiagramAgain
    \/ GeneratePlantUmlContentAgain

Spec == Init /\ [][Next]_vars

\* Construction of one resource record, nothing discovered.
ModelsInit ==
    /\ vpcs = <<>>
    /\ subnets = <<>>
    /\ route_tables = <<>>
    /\ internet_gateways = <<>>
    /\ ec2_instances = <<>>
    /\ lambda_functions = <<>>
    /\ nat_gateways = <<>>
    /\ route53_zones = <<>>
    /\ api_gateways = <<>>
    /\ organizer = "none"
    /\ topologies = <<>>
    /\ account = <<>>
    /\ output = <<>>
    /\ generator = [output_manager |-> FALSE, session_dir |-> FALSE]
    /\ saved = <<>>
    /\ call = NoCall
    /\ again = <<>>
    /\ pc = "discovered"
    /\ InitResource

ModelsNext == Construct \/ ChangeTags

ModelsSpec == ModelsInit /\ [][ModelsNext]_vars

-----------------------------------------------------------------------------
(* Properties of the organizer. *)

Organized == pc # "discovered"

\* the four child kinds joined on vpc_id: the topology field and the input list
VpcKeyedKinds ==
    { <<"subnets", subnets>>, <<"route_tables", route_tables>>,
      <<"internet_gateways", internet_gateways>>, <<"ec2_instances", ec2_instances>> }

\* every child list: the topology field and the input list
ChildKinds == VpcKeyedKinds \cup { <<"lambda_functions", lambda_functions>> }

\* the topologies in whose child list `field` the record c occurs
HomesOf(c, field) == {i \in 1..Len(topologies) : c \in Range(topologies[i][field])}

\* C1: every subnet, route table, internet gateway and instance c whose vpc_id
\* is the id of a VPC v of the vpcs list is in exactly one NetworkTopology, the
\* one whose vpc is v, and a child whose vpc_id is the id of no listed VPC is
\* in no NetworkTopology.
C1_JoinCorrectness ==
    Organized =>
        \A kind \in VpcKeyedKinds : \A c \in Range(kind[2]) :
            LET homes == HomesOf(c, kind[1])
                matching == {j \in 1..Len(vpcs) : vpcs[j].resource_id = c.vpc_id}
            IN  /\ \A j \in matching :
                      /\ Cardinality(homes) = 1
                      /\ \A i \in homes : topologies[i].vpc = vpcs[j]
                /\ matching = {} => homes = {}

C1_Witness ==
    /\ pc = "organized"
    /\ Len(topologies) = 2
    /\ \E g \in Range(internet_gateways) : HomesOf(g, "internet_gateways") = {2}
    /\ \E g \in Range(internet_gateways) : HomesOf(g, "internet_gateways") = {}

HasDuplicateIds(list) ==
    \E a, b \in 1..Len(list) : a # b /\ list[a].resource_id = list[b].resource_id

\* C2: no child list of a NetworkTopology holds two entries with the same
\* resource_id, even when the input list holds duplicates.
C2_NoDuplicateChildren ==
    Organized =>
        \A i \in 1..Len(topologies) : \A kind \in ChildKinds :
            ~HasDuplicateIds(topologies[i][kind[1]])

\* a is a subsequence of b: a is b with some entries left out
RECURSIVE IsSubsequence(_, _)
IsSubsequence(a, b) ==
    IF a = <<>> THEN TRUE
    ELSE IF b = <<>> THEN FALSE
    ELSE IF Head(a) = Head(b) THEN IsSubsequence(Tail(a), Tail(b))
    ELSE IsSubsequence(a, Tail(b))

\* C3: the organizer returns one NetworkTopology per element of vpcs, in the
\* order of vpcs, each child list is a subsequence of its input list, and
\* create_account_topology keeps that sequence unchanged.
C3_OrderPreserved ==
    /\ Organized =>
        /\ Len(topologies) = Len(vpcs)
        /\ \A i \in 1..Len(topologies) :
              /\ topologies[i].vpc = vpcs[i]
              /\ \A kind \in ChildKinds : IsSubsequence(topologies[i][kind[1]], kind[2])
    /\ account # <<>> =>
        /\ Len(account[1].vpcs) = Len(vpcs)
        /\ \A i \in 1..Len(vpcs) : account[1].vpcs[i] = topologies[i]
        /\ account[1].region = Region

C3_Witness ==
    /\ pc = "assembled"
    /\ Len(account[1].vpcs) = 2
    /\ account[1].vpcs[1].vpc.resource_id = "vpc-2"
    /\ Len(subnets) = 2
    /\ subnets[1].vpc_id = "vpc-1" /\ subnets[2].vpc_id = "vpc-2"
    /\ Len(ec2_instances) = 2
    /\ Len(account[1].vpcs[2].ec2_instances) = 2
    /\ ec2_instances[1] # ec2_instances[2]

\* the ids of the subnets the subnet join placed under topology i
PlacedSubnetIds(i) == {topologies[i].subnets[k].resource_id : k \in 1..Len(topologies[i].subnets)}

\* C4 as stated: a function is in the lambda_functions of the topology of v if
\* and only if one of its subnet_ids is the id of a subnet placed under v.
C4_SubnetOverlapOnly ==
    Organized =>
        \A i \in 1..Len(topologies) : \A f \in Range(lambda_functions) :
            f \in Range(topologies[i].lambda_functions)
                <=> Range(f.subnet_ids) \cap PlacedSubnetIds(i) # {}

\* C4 amended: a function is in the lambda_functions of the topology of v if
\* and only if its vpc_config is set and not empty and one of its subnet_ids
\* is the id of a subnet placed under v.
C4_VpcConfigAndSubnetOverlap ==
    Organized =>
        \A i \in 1..Len(topologies) : \A f \in Range(lambda_functions) :
            f \in Range(topologies[i].lambda_functions)
                <=> /\ ~f.vpc_config.is_none
                    /\ f.vpc_config.keys # {}
                    /\ Range(f.subnet_ids) \cap PlacedSubnetIds(i) # {}

C4_Witness ==
    /\ pc = "organized"
    /\ \E i \in 1..Len(topologies) :
          /\ \E f \in Range(lambda_functions) :
                /\ f.vpc_config.is_none
                /\ Range(f.subnet_ids) \cap PlacedSubnetIds(i) # {}
                /\ f \notin Range(topologies[i].lambda_functions)
          /\ \E f \in Range(lambda_functions) :
                f \in Range(topologies[i].lambda_functions)

-----------------------------------------------------------------------------
(* Properties of the text renderer. *)

\* the topology a generate_vpc_diagram or generate_subnet_diagram call was given
Rendered == account[1].vpcs[call.arg]

\* the positions of the lines of out that satisfy Test, in increasing order
RECURSIVE Ascending(_)
Ascending(S) ==
    IF S = {} THEN <<>>
    ELSE LET least == CHOOSE x \in S : \A y \in S : x <= y
         IN  <<least>> \o Ascending(S \ {least})

Positions(out, Test(_)) == Ascending({n \in 1..Len(out) : Test(out[n])})

\* the lines of out that start with the fragment label
Labelled(out, label) ==
    LET Starts(l) == l.text # <<>> /\ l.text[1] = label
    IN  SelectSeq(out, Starts)

\* the number a sequence of decimal digits denotes
RECURSIVE DigitsValue(_)
DigitsValue(ds) ==
    IF ds = <<>> THEN 0
    ELSE 10 * DigitsValue(SubSeq(ds, 1, Len(ds) - 1))
         + (CHOOSE d \in 0..9 : Digits[d + 1] = ds[Len(ds)])

\* the sum of a sequence of numbers
RECURSIVE Sum(_)
Sum(ns) == IF ns = <<>> THEN 0 ELSE Head(ns) + Sum(Tail(ns))

\* the count a line "label: <digits>" prints
PrintedCount(l) == DigitsValue(Tail(l.text))

\* out has the line "label<n>" exactly when n is not zero, and then once
CountLineIffNonZero(out, label, n) ==
    LET ls == Labelled(out, label)
    IN  IF n = 0 THEN ls = <<>>
        ELSE Len(ls) = 1 /\ PrintedCount(ls[1]) = n /\ ls[1].indent = indent_size

NumPublic(t) == Cardinality({k \in 1..Len(t.subnets) : t.subnets[k].map_public_ip_on_launch})
NumPrivate(t) == Cardinality({k \in 1..Len(t.subnets) : ~t.subnets[k].map_public_ip_on_launch})

\* C6: the VPC-level summary has the 'Total EC2 Instances' line if and only if
\* the topology has an instance, and then with the exact count; the 'Public
\* Subnets' and 'Private Subnets' lines each if and only if their count is not
\* zero; the 'Internet Gateways' block if and only if there is a gateway.
C6_VpcSummaryCounts ==
    call.op = "generate_vpc_diagram" =>
        /\ CountLineIffNonZero(output, "Total EC2 Instances: ", Len(Rendered.ec2_instances))
        /\ CountLineIffNonZero(output, "Public Subnets: ", NumPublic(Rendered))
        /\ CountLineIffNonZero(output, "Private Subnets: ", NumPrivate(Rendered))
        /\ Len(Labelled(output, "Internet Gateways:"))
               = (IF Len(Rendered.internet_gateways) > 0 THEN 1 ELSE 0)
        /\ Len(Rendered.ec2_instances) = 1 =>
               Labelled(output, "Total EC2 Instances: ")[1].text = <<"Total EC2 Instances: ", "1">>

C6_Witness ==
    /\ call.op = "generate_vpc_diagram"
    /\ Len(Rendered.ec2_instances) = 1
    /\ NumPublic(Rendered) = 0
    /\ NumPrivate(Rendered) = 1
    /\ Len(Labelled(output, "Total EC2 Instances: ")) = 1
    /\ Labelled(output, "Public Subnets: ") = <<>>

TextOps == {"generate_full_diagram", "generate_account_diagram",
            "generate_vpc_diagram", "generate_subnet_diagram"}

VpcCountLabels == {"Public Subnets: ", "Private Subnets: ", "Total EC2 Instances: "}
AccountCountLabels == {"Total VPCs: ", "Total Instances: ", "Total Subnets: "}

PrintsZero(l, labels) ==
    /\ l.text # <<>>
    /\ l.text[1] \in labels
    /\ PrintedCount(l) = 0

\* C7 as stated: no line of a text report prints a count of 0.
C7_NoZeroCountPrinted ==
    call.op \in TextOps =>
        \A n \in 1..Len(output) : ~PrintsZero(output[n], VpcCountLabels \cup AccountCountLabels)

\* C7 amended: the VPC-level counts (public subnets, private subnets, total
\* instances) are never printed as 0, in any text report; the three account
\* totals are always printed, once each, with the exact count, 0 included.
C7_ZeroSuppressedPerVpcOnly ==
    /\ call.op \in TextOps =>
          \A n \in 1..Len(output) : ~PrintsZero(output[n], VpcCountLabels)
    /\ call.op \in {"generate_full_diagram", "generate_account_diagram"} =>
          LET total(label) == Labelled(output, label)
              nInstances == Sum([i \in 1..Len(topologies) |-> Len(topologies[i].ec2_instances)])
              nSubnets == Sum([i \in 1..Len(topologies) |-> Len(topologies[i].subnets)])
          IN  /\ Len(total("Total VPCs: ")) = 1
              /\ PrintedCount(total("Total VPCs: ")[1]) = Len(vpcs)
              /\ Len(total("Total Instances: ")) = 1
              /\ PrintedCount(total("Total Instances: ")[1]) = nInstances
              /\ Len(total("Total Subnets: ")) = 1
              /\ PrintedCount(total("Total Subnets: ")[1]) = nSubnets

C7_Witness ==
    /\ call.op = "generate_full_diagram"
    /\ Len(account[1].vpcs) = 2
    /\ account[1].vpcs[1].ec2_instances = <<>>
    /\ account[1].vpcs[1].subnets = <<>>
    /\ account[1].vpcs[2].ec2_instances = <<>>
    /\ Len(account[1].vpcs[2].subnets) = 2
    /\ \E n \in 1..Len(output) : output[n].text = <<"Total Instances: ", "0">>
    /\ \E n \in 1..Len(output) : output[n].text = <<"Total Subnets: ", "2">>

IsBlank(l) == l.text = <<>>

\* out ends with exactly one blank line
EndsWithOneBlank(out) ==
    /\ out # <<>>
    /\ IsBlank(out[Len(out)])
    /\ Len(out) >= 2 => ~IsBlank(out[Len(out) - 1])

IsSeparatorRule(l) == l.text # <<>> /\ \A k \in 1..Len(l.text) : l.text[k] = "-"

\* C8 as stated: every section of the text output ends with exactly one blank
\* line: there are never two blank lines in a row, each VPC-level summary,
\* account summary and subnet-level report ends with one blank line, and in
\* the full report the line before each separator rule that closes a
\* subnet-level report is that report's single closing blank line.
C8_SectionsEndWithOneBlank ==
    call.op \in TextOps =>
        /\ \A n \in 1..Len(output) - 1 : ~(IsBlank(output[n]) /\ IsBlank(output[n + 1]))
        /\ call.op # "generate_full_diagram" => EndsWithOneBlank(output)
        /\ call.op = "generate_full_diagram" =>
              \A n \in 2..Len(output) :
                  IsSeparatorRule(output[n]) =>
                      \/ IsBlank(output[n - 1])
                      \/ output[n - 1].text = <<"DETAILED VPC BREAKDOWN:">>

\* the labels and values of an instance's lines, as generate_subnet_diagram
\* nests them under the instance's own line at position n of out
InstanceShownAt(out, n, instance, last) ==
    /\ n + 3 <= last
    /\ out[n].indent = 3 * indent_size
    /\ out[n + 1] = Line(4 * indent_size, <<"Type: ", instance.instance_type>>)
    /\ out[n + 2] = Line(4 * indent_size, <<"State: ", instance.state>>)
    /\ out[n + 3] = Line(4 * indent_size, <<"Private IP: ", instance.private_ip>>)
    /\ LET hasPublicLine ==
               /\ n + 4 <= last
               /\ out[n + 4].text # <<>>
               /\ out[n + 4].text[1] = "Public IP: "
       IN  /\ hasPublicLine <=> instance.public_ip # None
           /\ hasPublicLine => out[n + 4] = Line(4 * indent_size, <<"Public IP: ", instance.public_ip>>)

\* the instances of t whose subnet_id is id, in the order of t.ec2_instances
InstancesIn(t, id) ==
    LET at == Ascending({j \in 1..Len(t.ec2_instances) : t.ec2_instances[j].subnet_id = id})
    IN  [m \in 1..Len(at) |-> t.ec2_instances[at[m]]]

\* C9: generate_subnet_diagram writes one block per subnet in list order: a
\* classification line that says Public exactly when map_public_ip_on_launch
\* is true and Private otherwise, the CIDR and AZ lines, and the 'EC2
\* Instances:' list if and only if an instance of the topology has the
\* subnet's id as subnet_id; the list holds exactly those instances in order
\* with Type, State and Private IP, and a 'Public IP:' line if and only if
\* the instance's public_ip is present.
C9_SubnetReport ==
    call.op = "generate_subnet_diagram" =>
        LET t == Rendered
            IsClass(l) == l.indent = indent_size
            cls == Positions(output, IsClass)
        IN  /\ Len(cls) = Len(t.subnets)
            /\ \A k \in 1..Len(cls) :
                  LET first == cls[k]
                      last == IF k < Len(cls) THEN cls[k + 1] - 1 ELSE Len(output)
                      subnet == t.subnets[k]
                      expected == InstancesIn(t, subnet.resource_id)
                      IsName(n) == n \in first..last /\ output[n].indent = 3 * indent_size
                      names == Ascending({n \in 1..Len(output) : IsName(n)})
                      heads == {n \in first..last : output[n].text = <<"EC2 Instances:">>}
                  IN  /\ Len(output[first].text) = 3
                      /\ output[first].text[1] \in {"Public", "Private"}
                      /\ output[first].text[1] = "Public" <=> subnet.map_public_ip_on_launch
                      /\ output[first].text[2] = " Subnet: "
                      /\ first + 2 <= last
                      /\ output[first + 1] = Line(2 * indent_size, <<"CIDR: ", subnet.cidr_block>>)
                      /\ output[first + 2] = Line(2 * indent_size, <<"AZ: ", subnet.availability_zone>>)
                      /\ heads # {} <=> expected # <<>>
                      /\ heads \subseteq {first + 3}
                      /\ Len(names) = Len(expected)
                      /\ \A m \in 1..Len(names) :
                            /\ names[m] > first + 3
                            /\ InstanceShownAt(output, names[m], expected[m],
                                   IF m < Len(names) THEN names[m + 1] - 1 ELSE last - 1)
                            /\ output[names[m]].text \in
                                   {<<expected[m].name>>, <<expected[m].resource_id>>}

C9_Witness ==
    /\ call.op = "generate_subnet_diagram"
    /\ Len(Rendered.subnets) = 2
    /\ Rendered.subnets[1].map_public_ip_on_launch
    /\ ~Rendered.subnets[2].map_public_ip_on_launch
    /\ Len(InstancesIn(Rendered, Rendered.subnets[1].resource_id)) = 2
    /\ InstancesIn(Rendered, Rendered.subnets[2].resource_id) = <<>>
    /\ Len(Labelled(output, "Public IP: ")) = 1
    /\ Len(Labelled(output, "EC2 Instances:")) = 1

IsBannerRule(l) == Len(l.text) = BannerWidth /\ \A k \in 1..Len(l.text) : l.text[k] = "="

\* a VPC-level summary opens with "VPC: <label>", a subnet-level report with
\* "VPC: <label> (<cidr>)"
IsSummaryHeader(l) == l.indent = 0 /\ Len(l.text) = 2 /\ l.text[1] = "VPC: "
IsReportHeader(l) == l.indent = 0 /\ Len(l.text) = 5 /\ l.text[1] = "VPC: "
IsHeading(l) == l.text = <<"DETAILED VPC BREAKDOWN:">>

\* C10: generate_full_diagram writes the banner, then the whole account-level
\* summary (totals, then one VPC-level summary per topology in account
\* order), then the 'DETAILED VPC BREAKDOWN' heading, then per topology in
\* account order its subnet-level report immediately followed by one
\* separator rule; there are as many separator rules after the heading's own
\* rule as topologies.
C10_FullReportOrder ==
    call.op = "generate_full_diagram" =>
        LET acct == account[1]
            n == Len(acct.vpcs)
            headings == Positions(output, IsHeading)
            summaries == Positions(output, IsSummaryHeader)
            reports == Positions(output, IsReportHeader)
            rules == Positions(output, IsSeparatorRule)
        IN  /\ Len(output) >= 4
            /\ IsBannerRule(output[1])
            /\ output[2].text = <<"AWS CLOUD INFRASTRUCTURE MAP">>
            /\ IsBannerRule(output[3])
            /\ IsBlank(output[4])
            /\ Len(headings) = 1
            /\ LET h == headings[1]
               IN  /\ h > 4
                   /\ SubSeq(output, 5, h - 1) = generate_account_diagram(acct)
                   /\ output[5].text = <<"AWS Account - Region: ", acct.region>>
                   /\ Len(summaries) = n
                   /\ \A k \in 1..n :
                         /\ summaries[k] > 9 /\ summaries[k] < h
                         /\ SubSeq(output, summaries[k],
                                   (IF k < n THEN summaries[k + 1] ELSE h) - 1)
                                = generate_vpc_diagram(acct.vpcs[k])
                   /\ Len(rules) = n + 1
                   /\ rules[1] = h + 1
                   /\ IsBlank(output[h + 2])
                   /\ Len(reports) = n
                   /\ \A k \in 1..n :
                         /\ reports[k] = (IF k = 1 THEN h + 3 ELSE rules[k] + 1)
                         /\ rules[k + 1] > reports[k]
                         /\ SubSeq(output, reports[k], rules[k + 1] - 1)
                                = generate_subnet_diagram(acct.vpcs[k])
                   /\ (IF n = 0 THEN h + 2 ELSE rules[n + 1]) = Len(output)

C10_Witness ==
    /\ call.op = "generate_full_diagram"
    /\ Len(account[1].vpcs) = 2
    /\ account[1].vpcs[1].vpc.resource_id = "vpc-2"
    /\ account[1].vpcs[1].subnets = <<>>
    /\ Len(account[1].vpcs[2].subnets) = 2
    /\ Len(Positions(output, IsSeparatorRule)) = 3

-----------------------------------------------------------------------------
(* Properties of the hosted-zone join and of the diagram document. *)

\* the zones of the input list associated with the i-th VPC, in list order
ZonesOf(i) ==
    LET at == Ascending({j \in 1..Len(route53_zones) :
                   vpcs[i].resource_id \in Range(route53_zones[j].vpc_associations)})
    IN  [m \in 1..Len(at) |-> route53_zones[at[m]]]

-----------------------------------------------------------------------------
(* Properties of repeated calls. *)

-----------------------------------------------------------------------------
(* Properties of the diagram document. *)

\* the diagram document was written from the account
Drawn == call.op = "plantuml.generate_full_diagram"

IsCloudGroup(l) == l.text # <<>> /\ l.text[1] = "AWSCloudGroup(cloud_"
IsAzGroup(l) == l.text # <<>> /\ l.text[1] = "AvailabilityZoneGroup("
IsSubnetGroup(l) == l.text # <<>> /\ l.text[1] \in {"PublicSubnetGroup(", "PrivateSubnetGroup("}

\* the lines of the document written for the i-th NetworkTopology: from its
\* cloud group up to the next one
DocumentOf(out, i) ==
    LET at == Positions(out, IsCloudGroup)
    IN  SubSeq(out, at[i], IF i < Len(at) THEN at[i + 1] - 1 ELSE Len(out))

\* the zone named by an availability-zone container line
AzName(l) == l.text[Len(l.text) - 1]

\* the identifier of a subnet container line
GroupId(l) == SubSeq(l.text, 2, Len(l.text) - 3)

\* the grouping of the subnets of topology t in its document doc
AzGrouped(doc, t) ==
    LET azAt == Positions(doc, IsAzGroup)
        subs == t.subnets
        zones == {subs[k].availability_zone : k \in 1..Len(subs)}
        FirstAt(az) == CHOOSE k \in 1..Len(subs) :
                          /\ subs[k].availability_zone = az
                          /\ \A j \in 1..(k - 1) : subs[j].availability_zone # az
        Inside(a) == SubSeq(doc, azAt[a] + 1,
                            IF a < Len(azAt) THEN azAt[a + 1] - 1 ELSE Len(doc))
        Shown(a) == LET groups == SelectSeq(Inside(a), IsSubnetGroup)
                    IN  [k \in 1..Len(groups) |-> <<groups[k].text[1], GroupId(groups[k])>>]
        Expected(az) ==
            LET Public(sn) == sn.availability_zone = az /\ sn.map_public_ip_on_launch
                Private(sn) == sn.availability_zone = az /\ ~sn.map_public_ip_on_launch
                pub == SelectSeq(subs, Public)
                priv == SelectSeq(subs, Private)
            IN  [k \in 1..Len(pub) |-> <<"PublicSubnetGroup(", Replace(Chars(pub[k].resource_id), "-", "_")>>]
                \o [k \in 1..Len(priv) |-> <<"PrivateSubnetGroup(", Replace(Chars(priv[k].resource_id), "-", "_")>>]
    IN  /\ Len(azAt) = Cardinality(zones)
        /\ \A a \in 1..Len(azAt) : AzName(doc[azAt[a]]) \in zones
        /\ \A a, b \in 1..Len(azAt) :
              a < b => FirstAt(AzName(doc[azAt[a]])) < FirstAt(AzName(doc[azAt[b]]))
        /\ \A a \in 1..Len(azAt) : Shown(a) = Expected(AzName(doc[azAt[a]]))
        /\ Len(SelectSeq(doc, IsSubnetGroup)) = Len(subs)

\* C12: the document of a NetworkTopology has one availability-zone
\* container per distinct zone of its subnets, in first-seen order; every
\* subnet container is inside the container of its own zone, the public ones
\* before the private ones, each set in the order of the subnet list.
C12_AzGrouping ==
    Drawn => \A i \in 1..Len(account[1].vpcs) :
                 AzGrouped(DocumentOf(output, i), account[1].vpcs[i])

C12_Witness ==
    /\ Drawn
    /\ Len(account[1].vpcs) = 1
    /\ LET subs == account[1].vpcs[1].subnets
       IN  /\ Len(subs) = 4
           /\ ~subs[1].map_public_ip_on_launch
           /\ subs[2].availability_zone # subs[1].availability_zone
           /\ subs[3].availability_zone = subs[1].availability_zone
           /\ subs[3].map_public_ip_on_launch
    /\ Len(Positions(output, IsAzGroup)) = 2

\* the rows of the routing note
IsNoteRow(l) == l.text # <<>> /\ l.text[1] = "| "
NoteRows == SelectSeq(output, IsNoteRow)

\* the widths of the four fields of a row: the fragments between "| ", the
\* three " | " and " |"
FieldWidths(l) ==
    LET bars == Ascending({n \in 1..Len(l.text) : l.text[n] \in {"| ", " | ", " |"}})
    IN  [f \in 1..(Len(bars) - 1) |-> bars[f + 1] - bars[f] - 1]

RowWidthsBounded(l) ==
    LET w == FieldWidths(l)
    IN  /\ Len(w) = 4
        /\ w[1] <= 20 /\ w[2] <= 18 /\ w[3] <= 18 /\ w[4] <= 10

Min(a, b) == IF a < b THEN a ELSE b

\* the route tables of the account, in account order
AccountRouteTables == Flatten([i \in 1..Len(account[1].vpcs) |-> account[1].vpcs[i].route_tables])

\* C13: the routing note has rows for the first 5 route tables of the whole
\* account only, 3 routes of each at most, so never more than 15 rows (and
\* exactly 15 for 7 tables of 5 routes, however spread over the VPCs); the
\* fields of a row are at most 20, 18, 18 and 10 characters wide.
C13_NoteFirstFiveAccountWide ==
    Drawn =>
        LET shown == Take(AccountRouteTables, 5)
        IN  /\ Len(NoteRows) = Sum([k \in 1..Len(shown) |-> Min(3, Len(shown[k].routes))])
            /\ Len(NoteRows) <= 15
            /\ \A r \in 1..Len(NoteRows) : RowWidthsBounded(NoteRows[r])

\* the document has the routing note
HasNote == \E n \in 1..Len(output) : output[n].text = <<"note bottom">>

\* C14: the document has the trailing routing note exactly when some route
\* table of some NetworkTopology of the account has at least one route.
C14_NoteIffSomeRoute ==
    Drawn => (HasNote <=> \E k \in 1..Len(AccountRouteTables) :
                             AccountRouteTables[k].routes # <<>>)

\* the flow edges of doc drawn from the node of resource a: the identifiers
\* they point to
FlowTargets(doc, a) ==
    LET from == Replace(Chars(a.resource_id), "-", "_")
        IsEdge(l) == /\ Len(l.text) > Len(from) + 1
                     /\ SubSeq(l.text, 1, Len(from) + 1) = from \o <<" .u.> ">>
        edges == SelectSeq(doc, IsEdge)
    IN  [k \in 1..Len(edges) |-> SubSeq(edges[k].text, Len(from) + 2, Len(edges[k].text))]

FirstGatewayId(t) == Replace(Chars(t.internet_gateways[1].resource_id), "-", "_")

\* the subnet of topology t that resource a names is one of its public subnets
InPublicSubnet(t, a) ==
    \E k \in 1..Len(t.subnets) :
        t.subnets[k].resource_id = a.subnet_id /\ t.subnets[k].map_public_ip_on_launch

InPrivateSubnet(t, a) ==
    \E k \in 1..Len(t.subnets) :
        t.subnets[k].resource_id = a.subnet_id /\ ~t.subnets[k].map_public_ip_on_launch

\* C15 as stated: with an internet gateway in the topology, every NAT gateway
\* of the topology, in a public or a private subnet, has a flow edge to the
\* first internet gateway; with no internet gateway there is no such edge.
C15_EveryNatToFirstGateway ==
    Drawn => \A i \in 1..Len(account[1].vpcs) :
        LET t == account[1].vpcs[i]
            doc == DocumentOf(output, i)
        IN  \A n \in 1..Len(t.nat_gateways) :
                LET targets == Range(FlowTargets(doc, t.nat_gateways[n]))
                IN  IF t.internet_gateways # <<>>
                    THEN targets = {FirstGatewayId(t)}
                    ELSE targets = {}

\* C15 amended: the NAT gateways with an edge are those located in a public
\* subnet of the topology; a NAT gateway in a private subnet has no edge.
C15_PublicNatToFirstGateway ==
    Drawn => \A i \in 1..Len(account[1].vpcs) :
        LET t == account[1].vpcs[i]
            doc == DocumentOf(output, i)
        IN  \A n \in 1..Len(t.nat_gateways) :
                LET targets == Range(FlowTargets(doc, t.nat_gateways[n]))
                IN  IF t.internet_gateways # <<>> /\ InPublicSubnet(t, t.nat_gateways[n])
                    THEN targets = {FirstGatewayId(t)}
                    ELSE targets = {}

C15_Witness ==
    /\ Drawn
    /\ \E i \in 1..Len(account[1].vpcs) :
          LET t == account[1].vpcs[i]
          IN  /\ Len(t.internet_gateways) = 2
              /\ Len(t.nat_gateways) = 2
              /\ InPublicSubnet(t, t.nat_gateways[1])
              /\ InPrivateSubnet(t, t.nat_gateways[2])
              /\ FlowTargets(DocumentOf(output, i), t.nat_gateways[1]) = <<FirstGatewayId(t)>>
              /\ FlowTargets(DocumentOf(output, i), t.nat_gateways[2]) = <<>>

\* the identifiers of the NAT gateways of t in the order the renderer collects
\* them: by zone in first-seen order, by public subnet, by NAT gateway list
CollectedNatIds(t) == nat_gateway_ids(t)

Declarations ==
    {"AWSCloudGroup(cloud_", "VPCGroup(", "VPCInternetGateway(", "AvailabilityZoneGroup(",
     "PublicSubnetGroup(", "PrivateSubnetGroup(", "VPCNATGateway(", "EC2Instance(",
     "Route53(", "APIGateway("}

IsDeclaration(l) == l.text # <<>> /\ l.text[1] \in Declarations

\* the identifier a declaring line gives its node or group: the characters
\* after the opening fragment, up to the fragment that starts with ")" or ","
RECURSIVE Characters(_)
Characters(fragments) ==
    IF fragments = <<>> \/ Head(fragments) \in
          {") {", ", \"", ", \"Internet Gateway\", \"\")", ", \"\\t",
           ", \"Public subnet\\n", ", \"Private subnet\\n"}
    THEN <<>>
    ELSE <<Head(fragments)>> \o Characters(Tail(fragments))

Identifier(l) == Characters(Tail(l.text))

\* every hyphen and every dot of an id replaced by an underscore
Sanitised(id) == Replace(Replace(Chars(id), "-", "_"), ".", "_")

\* the identifiers the document of topology t must declare
ExpectedIdentifiers(t) ==
    {Sanitised(t.vpc.resource_id)}
    \cup {Sanitised(t.internet_gateways[k].resource_id) : k \in 1..Len(t.internet_gateways)}
    \cup {Sanitised(t.subnets[k].availability_zone) : k \in 1..Len(t.subnets)}
    \cup {Sanitised(t.subnets[k].resource_id) : k \in 1..Len(t.subnets)}
    \cup {Sanitised(t.route53_zones[k].resource_id) : k \in 1..Len(t.route53_zones)}
    \cup {Sanitised(t.api_gateways[k].resource_id) : k \in 1..Len(t.api_gateways)}
    \cup {Sanitised(t.nat_gateways[k].resource_id) :
              k \in {n \in 1..Len(t.nat_gateways) : InPublicSubnet(t, t.nat_gateways[n])}}
    \cup {Sanitised(t.ec2_instances[k].resource_id) :
              k \in {n \in 1..Len(t.ec2_instances) :
                        InPublicSubnet(t, t.ec2_instances[n]) \/ InPrivateSubnet(t, t.ec2_instances[n])}}

\* C17: every identifier the document gives a node or group is the resource
\* id (the zone name for an availability zone) with every hyphen and every
\* dot replaced by an underscore, so no identifier holds a hyphen or a dot.
C17_IdentifiersSanitised ==
    Drawn => \A i \in 1..Len(account[1].vpcs) :
        LET doc == SelectSeq(DocumentOf(output, i), IsDeclaration)
            declared == {Identifier(doc[k]) : k \in 1..Len(doc)}
        IN  /\ declared = ExpectedIdentifiers(account[1].vpcs[i])
            /\ \A id \in declared : "-" \notin Range(id) /\ "." \notin Range(id)

-----------------------------------------------------------------------------
(* Properties of resource construction. *)

Constructed == resource.stage \in {"built", "retagged"}

\* C18 as stated: the name of a constructed resource is the supplied name
\* when one was supplied, otherwise tags['Name'] of the constructor's tags
\* when that key is present, otherwise absent; a supplied name is never
\* replaced and a later change of tags does not change the name.
C18_NameDerivedOnce ==
    Constructed =>
        resource.name = (IF resource.supplied # None THEN resource.supplied
                         ELSE IF "Name" \in DOMAIN resource.given_tags
                              THEN resource.given_tags["Name"]
                              ELSE None)

\* C18 amended: an empty supplied name counts as none supplied.
C18_NonEmptyNameKept ==
    Constructed =>
        resource.name = (IF resource.supplied \notin {None, ""} THEN resource.supplied
                         ELSE IF "Name" \in DOMAIN resource.given_tags
                              THEN resource.given_tags["Name"]
                              ELSE resource.supplied)

C18_Witness ==
    /\ resource.stage = "retagged"
    /\ resource.supplied = None
    /\ resource.given_tags = ("Name" :> "web-1")
    /\ resource.name = "web-1"
    /\ resource.tags = <<>>

-----------------------------------------------------------------------------
(* Properties of labels. *)

\* the name of r, or its resource_id when the name is absent
NameOrId(r) == IF r.name = None THEN r.resource_id ELSE r.name

\* the name of r, or the fixed word when the name is absent
NameOrWord(r, word) == IF r.name = None THEN word ELSE r.name

\* the labels of the text reports: the VPC in the header of the subnet-level
\* report and of the VPC-level summary, the subnets and the instances of the
\* subnet-level report, in order
TextLabels ==
    /\ call.op \in {"generate_subnet_diagram", "generate_vpc_diagram"} =>
          output[1].text[2] = NameOrId(Rendered.vpc)
    /\ call.op = "generate_subnet_diagram" =>
          LET t == Rendered
              IsSubnetLine(l) == Len(l.text) = 3 /\ l.text[2] = " Subnet: "
              IsInstanceLine(l) == l.indent = 3 * indent_size
              subnetLines == SelectSeq(output, IsSubnetLine)
              instanceLines == SelectSeq(output, IsInstanceLine)
              shown == Flatten([k \in 1..Len(t.subnets) |-> InstancesIn(t, t.subnets[k].resource_id)])
          IN  /\ [k \in 1..Len(subnetLines) |-> subnetLines[k].text[3]]
                   = [k \in 1..Len(t.subnets) |-> NameOrId(t.subnets[k])]
              /\ [k \in 1..Len(instanceLines) |-> instanceLines[k].text]
                   = [k \in 1..Len(shown) |-> <<NameOrId(shown[k])>>]

\* the labels of the VPC groups and of the rows of the routing note
DiagramGroupLabels ==
    Drawn =>
        /\ \A i \in 1..Len(account[1].vpcs) :
              LET group == Labelled(DocumentOf(output, i), "VPCGroup(")
              IN  /\ Len(group) = 1
                  /\ group[1].text[Len(group[1].text) - 1] = NameOrId(account[1].vpcs[i].vpc)
        /\ LET shown == Flatten([i \in 1..Len(account[1].vpcs) |->
                             Take(account[1].vpcs[i].route_tables, 5)])
               rows == Flatten([k \in 1..Len(shown) |->
                             [r \in 1..Min(3, Len(shown[k].routes)) |-> shown[k]]])
           IN  /\ Len(NoteRows) = Len(rows)
               /\ \A r \in 1..Len(rows) :
                     LET label == Take(Chars(NameOrId(rows[r])), 20)
                     IN  SubSeq(NoteRows[r].text, 2, Len(label) + 2) = label \o <<" | ">>

\* the labels of the instance and NAT gateway nodes, where an absent name
\* shows as fallback(r, word)
DiagramNodeLabels(fallback(_, _)) ==
    Drawn => \A i \in 1..Len(account[1].vpcs) :
        LET t == account[1].vpcs[i]
            doc == DocumentOf(output, i)
            instanceNodes == Labelled(doc, "EC2Instance(")
            natNodes == Labelled(doc, "VPCNATGateway(")
        IN  /\ \A k \in 1..Len(instanceNodes) : \A n \in 1..Len(t.ec2_instances) :
                  Identifier(instanceNodes[k]) = Replace(Chars(t.ec2_instances[n].resource_id), "-", "_")
                  => instanceNodes[k].text[Len(instanceNodes[k].text) - 3]
                         = fallback(t.ec2_instances[n], "Instance")
            /\ \A k \in 1..Len(natNodes) : \A n \in 1..Len(t.nat_gateways) :
                  Identifier(natNodes[k]) = Replace(Chars(t.nat_gateways[n].resource_id), "-", "_")
                  => natNodes[k].text[Len(natNodes[k].text) - 1]
                         = fallback(t.nat_gateways[n], "NAT Gateway")

IdFallback(r, word) == NameOrId(r)
WordFallback(r, word) == NameOrWord(r, word)

\* C19 as stated: wherever the text report or the diagram document labels a
\* VPC, subnet, instance, NAT gateway or route table whose name is absent,
\* the label is the resource_id.
C19_LabelFallsBackToId ==
    TextLabels /\ DiagramGroupLabels /\ DiagramNodeLabels(IdFallback)

\* C19 amended: in the diagram document an instance without a name is
\* labelled "Instance" and a NAT gateway without a name "NAT Gateway"; the
\* route table label is cut to 20 characters.
C19_LabelFallsBackToIdOrWord ==
    TextLabels /\ DiagramGroupLabels /\ DiagramNodeLabels(WordFallback)

C19_Witness ==
    /\ Drawn
    /\ \E i \in 1..Len(account[1].vpcs) :
          LET t == account[1].vpcs[i]
              doc == DocumentOf(output, i)
          IN  /\ \E n \in 1..Len(t.ec2_instances) : t.ec2_instances[n].name = None
              /\ \E n \in 1..Len(t.nat_gateways) : t.nat_gateways[n].name = None
              /\ Labelled(doc, "EC2Instance(") # <<>>
              /\ Labelled(doc, "VPCNATGateway(") # <<>>
    /\ \E i \in 1..Len(account[1].vpcs) :
          /\ account[1].vpcs[i].vpc.name = None
          /\ LET group == Labelled(DocumentOf(output, i), "VPCGroup(")[1].text
             IN  group[Len(group) - 1] = account[1].vpcs[i].vpc.resource_id

-----------------------------------------------------------------------------
(* Properties of the effects of PlantUMLDiagramGenerator.generate_full_diagram. *)

\* the sink holds the document exactly once
WrittenOnce == output = _generate_plantuml_content(account[1])

\* C20 as stated: for every configuration of the generator, rendering the
\* diagram document writes the document once to the sink and saves or calls
\* nothing else.
C20_OnlyTheSinkIsWritten ==
    Drawn => WrittenOnce /\ saved = <<>>

\* C20 amended: the document is written once to the sink; a generator that
\* has both an output manager and a session directory also saves the same
\* document once, with the region of the account; any other generator saves
\* nothing.
C20_SinkAndConfiguredSave ==
    Drawn =>
        /\ WrittenOnce
        /\ saved = IF generator.output_manager /\ generator.session_dir
                   THEN <<[content |-> output, region |-> account[1].region]>>
                   ELSE <<>>

C20_Witness ==
    /\ Drawn
    /\ generator.output_manager /\ generator.session_dir
    /\ output # <<>>
    /\ Len(saved) = 1 /\ saved[1].content = output

-----------------------------------------------------------------------------
(* Properties of the hidden edges. *)

\* how many edges with this arrow the document draws from one identifier to
\* another
EdgeCount(doc, from, arrow, to) ==
    LET IsEdge(l) == l.text = from \o <<arrow>> \o to
    IN  Len(SelectSeq(doc, IsEdge))

\* how many times an identifier occurs in a list of identifiers
Occurrences(ids, id) ==
    LET Same(x) == x = id
    IN  Len(SelectSeq(ids, Same))

\* a topology with more than one collected NAT gateway and an internet gateway
ManyNats(t) == Len(nat_gateway_ids(t)) > 1 /\ igw_ids(t) # <<>>

\* C21 as stated: with more than one collected NAT gateway and an internet
\* gateway, each NAT gateway after the first has a hidden edge to the first
\* internet gateway and no visible flow edge to it, and the first NAT gateway
\* has no hidden edge.
C21_LaterNatsHiddenOnly ==
    Drawn => \A i \in 1..Len(account[1].vpcs) :
        LET t == account[1].vpcs[i]
            doc == DocumentOf(output, i)
            nats == nat_gateway_ids(t)
        IN  ManyNats(t) =>
              /\ \A k \in 2..Len(nats) :
                    /\ EdgeCount(doc, nats[k], " .[hidden]u.> ", igw_ids(t)[1]) > 0
                    /\ EdgeCount(doc, nats[k], " .u.> ", igw_ids(t)[1]) = 0
              /\ nats[1] \notin Range(Tail(nats)) =>
                    EdgeCount(doc, nats[1], " .[hidden]u.> ", igw_ids(t)[1]) = 0

\* C21 amended: each collected NAT gateway has its visible flow edge to the
\* first internet gateway, once per time it was collected, and each one after
\* the first has a hidden edge to it as well; the first has no hidden edge of
\* its own, and with a single NAT gateway or no internet gateway the document
\* has no hidden NAT edge.
C21_LaterNatsHiddenAndVisible ==
    Drawn => \A i \in 1..Len(account[1].vpcs) :
        LET t == account[1].vpcs[i]
            doc == DocumentOf(output, i)
            nats == nat_gateway_ids(t)
            IsHidden(l) == \E k \in 1..Len(l.text) : l.text[k] = " .[hidden]u.> "
        IN  IF ManyNats(t)
            THEN \A k \in 1..Len(nats) :
                    /\ EdgeCount(doc, nats[k], " .u.> ", igw_ids(t)[1])
                          = Occurrences(nats, nats[k])
                    /\ EdgeCount(doc, nats[k], " .[hidden]u.> ", igw_ids(t)[1])
                          = Occurrences(Tail(nats), nats[k])
            ELSE SelectSeq(doc, IsHidden) = <<>>

C21_Witness ==
    /\ Drawn
    /\ \E i \in 1..Len(account[1].vpcs) :
          LET t == account[1].vpcs[i]
              doc == DocumentOf(output, i)
              nats == nat_gateway_ids(t)
          IN  /\ Len(nats) = 2 /\ nats[1] # nats[2]
              /\ Len(igw_ids(t)) = 2
              /\ EdgeCount(doc, nats[2], " .[hidden]u.> ", igw_ids(t)[1]) = 1
              /\ EdgeCount(doc, nats[2], " .u.> ", igw_ids(t)[1]) = 1
              /\ EdgeCount(doc, nats[1], " .[hidden]u.> ", igw_ids(t)[1]) = 0

-----------------------------------------------------------------------------
(* Properties of the instance rows. *)

IsSubnetContainer(l) ==
    l.text # <<>> /\ l.text[1] \in {"PublicSubnetGroup(", "PrivateSubnetGroup("}

IsInstanceNode(l) == l.text # <<>> /\ l.text[1] = "EC2Instance("

IsAlignmentEdge(l) == \E k \in 1..Len(l.text) : l.text[k] = " -[hidden]r- "

\* the lines of the subnet container opened at line p of doc, up to the line
\* that closes it
ContainerBody(doc, p) ==
    LET Closes(q) == q > p /\ doc[q].indent = 6 /\ doc[q].text = <<"}">>
        end == CHOOSE q \in p + 1..Len(doc) :
                   Closes(q) /\ \A r \in p + 1..q - 1 : ~Closes(r)
    IN  SubSeq(doc, p + 1, end - 1)

\* the alignment edges of n identifiers in rows of 3: k to k + 1 unless k ends
\* a row
RowEdges(ids) ==
    LET InRow(k) == k % 3 # 0
        from == SelectSeq([k \in 1..Len(ids) - 1 |-> k], InRow)
    IN  [e \in 1..Len(from) |-> ids[from[e]] \o <<" -[hidden]r- ">> \o ids[from[e] + 1]]

\* ceil(n / 3)
RowsOf(n) == (n + 2) \div 3

\* C22: in the container of a subnet with n instances the document has the n
\* instance nodes once each in list order, and a hidden alignment edge from
\* instance k to instance k + 1 exactly when both are in the same row of 3,
\* each edge after the nodes of its row and before the nodes of the next:
\* n - ceil(n / 3) alignment edges.
C22_InstanceRowsOfThree ==
    Drawn => \A i \in 1..Len(account[1].vpcs) :
        LET t == account[1].vpcs[i]
            doc == DocumentOf(output, i)
            at == Positions(doc, IsSubnetContainer)
        IN  /\ SelectSeq(doc, IsAlignmentEdge)
                 = Flatten([c \in 1..Len(at) |->
                       SelectSeq(ContainerBody(doc, at[c]), IsAlignmentEdge)])
            /\ \A c \in 1..Len(at) : \A s \in 1..Len(t.subnets) :
                  NodeId(t.subnets[s].resource_id) = Identifier(doc[at[c]]) =>
                    LET instances == get_instances_by_subnet(t, t.subnets[s].resource_id)
                        n == Len(instances)
                        ids == [k \in 1..n |-> NodeId(instances[k].resource_id)]
                        body == ContainerBody(doc, at[c])
                        nodes == SelectSeq(body, IsInstanceNode)
                        edges == SelectSeq(body, IsAlignmentEdge)
                        rows == LET InRows(l) == IsInstanceNode(l) \/ IsAlignmentEdge(l)
                                IN  SelectSeq(body, InRows)
                    IN  /\ [k \in 1..Len(nodes) |-> Identifier(nodes[k])] = ids
                        /\ [k \in 1..Len(edges) |-> edges[k].text] = RowEdges(ids)
                        /\ Len(edges) = n - RowsOf(n)
                        /\ \A k \in 1..n :
                              LET r == (k - 1) \div 3
                                  p == k + 2 * r
                              IN  IsInstanceNode(rows[p]) /\ Identifier(rows[p]) = ids[k]

C22_Witness ==
    /\ Drawn
    /\ \E i \in 1..Len(account[1].vpcs) :
          LET t == account[1].vpcs[i]
              doc == DocumentOf(output, i)
              at == Positions(doc, IsSubnetContainer)
          IN  /\ Len(at) = 2
              /\ Len(get_instances_by_subnet(t, "subnet-1")) = 3
              /\ Len(get_instances_by_subnet(t, "subnet-2")) = 4
              /\ Len(SelectSeq(ContainerBody(doc, at[1]), IsAlignmentEdge)) = 2
              /\ Len(SelectSeq(ContainerBody(doc, at[2]), IsAlignmentEdge)) = 2
              /\ Len(SelectSeq(ContainerBody(doc, at[2]), IsInstanceNode)) = 4

-----------------------------------------------------------------------------
(* Properties of the edge endpoints. *)

Arrows == {" .u.> ", " .[hidden]u.> ", " -[hidden]r- "}

IsEdgeLine(l) == \E k \in 1..Len(l.text) : l.text[k] \in Arrows

\* the position of the arrow in an edge line
ArrowAt(l) == CHOOSE k \in 1..Len(l.text) : l.text[k] \in Arrows

\* the two endpoints of an edge line
EdgeFrom(l) == SubSeq(l.text, 1, ArrowAt(l) - 1)
EdgeTo(l) == SubSeq(l.text, ArrowAt(l) + 1, Len(l.text))

\* the lines that emit a node
IsNode(l) ==
    l.text # <<>> /\ l.text[1] \in {"VPCInternetGateway(", "VPCNATGateway(", "EC2Instance(",
                                     "Route53(", "APIGateway("}

\* id is the identifier of a node emitted before line p of doc
EmittedBefore(doc, p, id) ==
    \E q \in 1..p - 1 : IsNode(doc[q]) /\ Identifier(doc[q]) = id

\* C23: in the document of every topology, both endpoints of every edge, be
\* it a visible flow edge, a hidden NAT edge or a hidden alignment edge, are
\* identifiers of nodes emitted earlier in the document of that topology.
C23_EdgesJoinEmittedNodes ==
    Drawn => \A i \in 1..Len(account[1].vpcs) :
        LET doc == DocumentOf(output, i)
        IN  \A p \in 1..Len(doc) :
                IsEdgeLine(doc[p]) =>
                    /\ EmittedBefore(doc, p, EdgeFrom(doc[p]))
                    /\ EmittedBefore(doc, p, EdgeTo(doc[p]))

C23_Witness ==
    /\ Drawn
    /\ \E i \in 1..Len(account[1].vpcs) :
          LET t == account[1].vpcs[i]
              doc == DocumentOf(output, i)
              Has(arrow) == \E p \in 1..Len(doc) : \E k \in 1..Len(doc[p].text) :
                                doc[p].text[k] = arrow
          IN  /\ \A arrow \in Arrows : Has(arrow)
              /\ \E n \in 1..Len(t.ec2_instances) :
                    \A k \in 1..Len(t.subnets) :
                        t.subnets[k].resource_id # t.ec2_instances[n].subnet_id
              /\ \E p \in 1..Len(doc) :
                    /\ IsEdgeLine(doc[p])
                    /\ doc[p].text[ArrowAt(doc[p])] = " .u.> "
                    /\ EdgeTo(doc[p]) = nat_gateway_ids(t)[1]

====
